---- MODULE Spec2Model ----
(***************************************************************************)
(* ClearCoreAI orchestrator: planning (tools/llm_utils.py) and plan        *)
(* execution (main.py).  One request is served per behaviour: POST /plan,  *)
(* POST /run_goal or POST /execute_plan.  The LLM and the worker agents    *)
(* are the environment: their replies are chosen nondeterministically.     *)
(***************************************************************************)
EXTENDS Integers, Sequences, FiniteSets, TLC

\* ------------------------------------------------------------------ bounds
MaxReplyLen == 3    \* lines in an LLM planning reply
MaxPlanLen == 3     \* lines in a client-supplied plan text (/execute_plan)

\* ------------------------------------------------------- strings and JSON
\* Names are strings; Chars gives their characters so that the regular
\* expressions and substring tests of the code can be evaluated.
Chars(s) ==
    CASE s = "A" -> <<"A">>
      [] s = "B" -> <<"B">>
      [] s = "C" -> <<"C">>
      [] s = "Aud" -> <<"A", "u", "d">>
      [] s = "web-fetch" -> <<"w", "e", "b", "-", "f", "e", "t", "c", "h">>
      [] s = "ghost" -> <<"g", "h", "o", "s", "t">>
      [] s = "noop" -> <<"n", "o", "o", "p">>
      [] s = "do" -> <<"d", "o">>
      [] s = "work" -> <<"w", "o", "r", "k">>
      [] s = "ns:run" -> <<"n", "s", ":", "r", "u", "n">>
      [] s = "audit_trace" -> <<"a", "u", "d", "i", "t", "_", "t", "r", "a", "c", "e">>
      [] s = "QA-Audit" -> <<"Q", "A", "-", "A", "u", "d", "i", "t">>
      [] s = "review" -> <<"r", "e", "v", "i", "e", "w">>
      [] s = "audit" -> <<"a", "u", "d", "i", "t">>
      [] s = "no agent can do this" -> <<"n", "o", " ", "a", "g", "e", "n", "t">>
      [] s = "orchestrator" -> <<"o", "r", "c", "h", "e", "s", "t", "r", "a", "t", "o", "r">>
      [] OTHER -> <<>>

LowerCase == {"a", "b", "c", "d", "e", "f", "g", "h", "i", "j", "k", "l", "m",
              "n", "o", "p", "q", "r", "s", "t", "u", "v", "w", "x", "y", "z"}
UpperCase == {"A", "B", "C", "D", "E", "F", "G", "H", "I", "J", "K", "L", "M",
              "N", "O", "P", "Q", "R", "S", "T", "U", "V", "W", "X", "Y", "Z"}
Digits == {"0", "1", "2", "3", "4", "5", "6", "7", "8", "9"}

\* [A-Za-z0-9_]
WordChars == LowerCase \cup UpperCase \cup Digits \cup {"_"}

\* str.lower() on the characters the model uses
LowerChar(c) ==
    CASE c = "A" -> "a" [] c = "B" -> "b" [] c = "C" -> "c" [] c = "Q" -> "q"
      [] OTHER -> c

Lower(cs) == [i \in 1..Len(cs) |-> LowerChar(cs[i])]

\* needle in hay (Python substring test on character sequences)
Contains(hay, needle) ==
    \E i \in 0..(Len(hay) - Len(needle)) :
        \A j \in 1..Len(needle) : hay[i + j] = needle[j]

\* re: <class>+ matched against a whole name
MatchesClass(s, class) ==
    /\ Len(Chars(s)) > 0
    /\ \A i \in 1..Len(Chars(s)) : Chars(s)[i] \in class

\* JSON / Python values are tagged so that values of different types compare
None == [type |-> "null"]
Str(s) == [type |-> "str", val |-> s]
Bool(b) == [type |-> "bool", val |-> b]
Num(n) == [type |-> "num", val |-> n]
List(q) == [type |-> "list", val |-> q]
Dict(f) == [type |-> "dict", val |-> f]

IsDict(v) == v.type = "dict"

\* dict.get(key, default)
Get(d, key, default) == IF key \in DOMAIN d.val THEN d.val[key] ELSE default

\* Python truthiness: bool(v)
Truthy(v) ==
    CASE v.type = "null" -> FALSE
      [] v.type = "bool" -> v.val
      [] v.type = "num" -> v.val # 0
      [] v.type = "str" -> v.val # ""
      [] v.type = "list" -> Len(v.val) > 0
      [] v.type = "dict" -> DOMAIN v.val # {}

\* ----------------------------------------------------------- plan text
\* A text is a sequence of lines.  A line that has the shape
\* "<n>. <agent> <arrow> <capability>" is a "step" line; the other kinds
\* never match any of the step patterns.
StepLine(n, a, arrow, c) ==
    [kind |-> "step", n |-> n, agent |-> a, arrow |-> arrow, cap |-> c]
ProseLine == [kind |-> "prose", n |-> 0, agent |-> "", arrow |-> "", cap |-> ""]
BlankLine == [kind |-> "blank", n |-> 0, agent |-> "", arrow |-> "", cap |-> ""]
CommentLine == [kind |-> "comment", n |-> 0, agent |-> "", arrow |-> "", cap |-> ""]
\* "UNSUPPORTED | <reason>"
UnsupportedLine == [kind |-> "unsupported", n |-> 0, agent |-> "", arrow |-> "", cap |-> "no agent can do this"]

\* str.replace("->", "→") on a line
NormalizeArrow(line) ==
    IF line.arrow = "->" THEN [line EXCEPT !.arrow = "→"] ELSE line

\* ------------------------------------------------------------- registry
\* agents_registry is a Python dict: an insertion-ordered mapping.  It is
\* modelled as a sequence of records with pairwise distinct names, in
\* insertion order.  Manifests are stored after register_agent normalised
\* their capabilities to objects {name, description, custom_input_handler?}.
Cap(name) == [name |-> name, custom_input_handler |-> None]
MetaCap(name) == [name |-> name, custom_input_handler |-> Str("use_execution_trace")]
TypeSpec(t) == Dict([type |-> Str(t)])

Url(name) ==
    CASE name = "A" -> "http://A"
      [] name = "B" -> "http://B"
      [] name = "C" -> "http://C"
      [] name = "Aud" -> "http://Aud"
      [] name = "web-fetch" -> "http://web-fetch"
      [] name = "orchestrator" -> "http://orchestrator"

Agent(name, caps, in, out) ==
    [name |-> name,
     base_url |-> Url(name),
     manifest |-> [capabilities |-> caps, input_spec |-> in, output_spec |-> out]]

\* seed scenario 2 of the specification plus an auditor
RegSeed ==
    << Agent("A", <<Cap("do")>>, None, TypeSpec("x")),
       Agent("B", <<Cap("work")>>, TypeSpec("y"), TypeSpec("z")),
       Agent("C", <<Cap("work")>>, TypeSpec("x"), TypeSpec("z")),
       Agent("Aud", <<MetaCap("audit_trace")>>, None, None) >>

\* a chain in which the compatible alternative is already part of the plan
RegChain ==
    << Agent("A", <<Cap("do")>>, None, TypeSpec("x")),
       Agent("C", <<Cap("work")>>, TypeSpec("x"), TypeSpec("x")),
       Agent("B", <<Cap("work")>>, TypeSpec("y"), TypeSpec("z")),
       Agent("Aud", <<MetaCap("review")>>, TypeSpec("x"), TypeSpec("x")) >>

\* no agent declares a non-empty spec; names outside [A-Za-z0-9_]
RegPlain ==
    << Agent("A", <<Cap("do")>>, Dict(<< >>), None),
       Agent("web-fetch", <<Cap("work"), Cap("ns:run")>>, None, None),
       Agent("Aud", <<Cap("QA-Audit")>>, None, None) >>

\* the audit capability has a name outside [A-Za-z0-9_\-]
RegColon ==
    << Agent("A", <<Cap("do")>>, None, None),
       Agent("Aud", <<MetaCap("ns:run")>>, None, None) >>

RegEmpty == << >>

\* an agent may register under any name, the word "orchestrator" included
RegNamed ==
    << Agent("A", <<Cap("do")>>, None, None),
       Agent("orchestrator", <<Cap("work")>>, None, None) >>

Registries == {RegSeed, RegChain, RegPlain, RegColon, RegEmpty}

\* dict lookups on the registry / the catalog
HasKey(d, name) == \E i \in 1..Len(d) : d[i].name = name
Entry(d, name) == d[CHOOSE i \in 1..Len(d) : d[i].name = name]
InSeq(x, q) == \E i \in 1..Len(q) : q[i] = x

\* {c["name"] ...}: the capability names an agent's manifest advertises
_capabilities_for(registry, agent_name) ==
    IF HasKey(registry, agent_name)
    THEN {Entry(registry, agent_name).manifest.capabilities[i].name :
              i \in 1..Len(Entry(registry, agent_name).manifest.capabilities)}
    ELSE {}

\* ------------------------------------------------------------- catalog
\* cap_meta[cname] = {...}: dict assignment keeps the first position of a key
RECURSIVE CapMeta(_, _)
CapMeta(caps, n) ==
    IF n = 0 THEN << >>
    ELSE LET prev == CapMeta(caps, n - 1)
             c == caps[n]
             item == [name |-> c.name, custom_input_handler |-> c.custom_input_handler]
         IN IF ~(c.name # "") THEN prev
            ELSE IF HasKey(prev, c.name)
                 THEN [i \in 1..Len(prev) |-> IF prev[i].name = c.name THEN item ELSE prev[i]]
                 ELSE Append(prev, item)

RECURSIVE CapNames(_, _)
CapNames(caps, n) ==
    IF n = 0 THEN << >>
    ELSE IF caps[n].name # "" THEN Append(CapNames(caps, n - 1), caps[n].name)
         ELSE CapNames(caps, n - 1)

\* catalog["agents"] in registry order (the caller handles the empty registry)
_collect_catalog(registry) ==
    [i \in 1..Len(registry) |->
        [name |-> registry[i].name,
         capabilities |-> CapNames(registry[i].manifest.capabilities,
                                   Len(registry[i].manifest.capabilities)),
         capability_meta |-> CapMeta(registry[i].manifest.capabilities,
                                     Len(registry[i].manifest.capabilities)),
         input_spec |-> registry[i].manifest.input_spec,
         output_spec |-> registry[i].manifest.output_spec]]

\* variant: a missing spec is taken to be compatible with anything
_are_specs_compatible_Lenient(out_spec, in_spec) ==
    IF ~Truthy(out_spec) \/ ~Truthy(in_spec) THEN TRUE
    ELSE Get(out_spec, "type", None) = Get(in_spec, "type", None)

_are_specs_compatible(out_spec, in_spec) ==
    IF ~Truthy(out_spec) \/ ~Truthy(in_spec) THEN FALSE
    ELSE Get(out_spec, "type", None) = Get(in_spec, "type", None)

\* smallest index of q whose element satisfies P, 0 when there is none
FirstIndex(q, P(_)) ==
    IF \E i \in 1..Len(q) : P(q[i])
    THEN CHOOSE i \in 1..Len(q) : P(q[i]) /\ \A j \in 1..(i - 1) : ~P(q[j])
    ELSE 0

NoStep == << >>

\* the audit capability one catalog entry offers, NoStep when none
AuditCapOf(meta) ==
    LET byHandler == FirstIndex(meta.capability_meta,
                        LAMBDA m : m.custom_input_handler = Str("use_execution_trace"))
        byName == FirstIndex(meta.capabilities,
                        LAMBDA c : Contains(Lower(Chars(c)), Chars("audit")))
    IN IF InSeq("audit_trace", meta.capabilities) THEN <<meta.name, "audit_trace">>
       ELSE IF byHandler # 0 THEN <<meta.name, meta.capability_meta[byHandler].name>>
       ELSE IF byName # 0 THEN <<meta.name, meta.capabilities[byName]>>
       ELSE NoStep

_find_audit_capability(catalog) ==
    LET i == FirstIndex(catalog, LAMBDA meta : AuditCapOf(meta) # NoStep)
    IN IF i = 0 THEN NoStep ELSE AuditCapOf(catalog[i])

\* ------------------------------------------------------------- parsing
\* variant: only the Unicode arrow is accepted
PlannerPattern_UnicodeOnly(line) ==
    /\ line.kind = "step"
    /\ line.arrow = "→"
    /\ MatchesClass(line.agent, WordChars \cup {"-"})
    /\ MatchesClass(line.cap, WordChars \cup {"-"})

\* llm_utils.py pattern: ^\s*\d+\.\s*([A-Za-z0-9_\-]+)\s*(?:→|->)\s*([A-Za-z0-9_\-]+)\s*$
PlannerPattern(line) ==
    /\ line.kind = "step"
    /\ line.arrow \in {"→", "->"}
    /\ MatchesClass(line.agent, WordChars \cup {"-"})
    /\ MatchesClass(line.cap, WordChars \cup {"-"})

\* main.py _extract_step_lines: ([A-Za-z0-9_]+)\s*(?:→|->)\s*([A-Za-z0-9_\-:]+)
ExtractPattern(line) ==
    /\ line.kind = "step"
    /\ line.arrow \in {"→", "->"}
    /\ MatchesClass(line.agent, WordChars)
    /\ MatchesClass(line.cap, WordChars \cup {"-", ":"})

\* main.py _filter_registered_steps: ^\d+\.\s*([A-Za-z0-9_]+)\s*→\s*([A-Za-z0-9_\-:]+)$
FilterPattern(line) ==
    /\ line.kind = "step"
    /\ line.arrow = "→"
    /\ MatchesClass(line.agent, WordChars)
    /\ MatchesClass(line.cap, WordChars \cup {"-", ":"})

\* main.py execute_plan_string: ^\d+\.\s*([A-Za-z0-9_]+)\s*→\s*([A-Za-z0-9_]+)$
ExecPattern(line) ==
    /\ line.kind = "step"
    /\ line.arrow = "→"
    /\ MatchesClass(line.agent, WordChars)
    /\ MatchesClass(line.cap, WordChars)

\* steps are (agent, capability) tuples
RECURSIVE ParseLines(_, _)
ParseLines(text, n) ==
    IF n = 0 THEN << >>
    ELSE IF PlannerPattern(text[n])
         THEN Append(ParseLines(text, n - 1), <<text[n].agent, text[n].cap>>)
         ELSE ParseLines(text, n - 1)

_parse_llm_plan(text) == ParseLines(text, Len(text))

\* plan_lines = [f"{i+1}. {a} → {c}" ...]
RenderPlan(steps) ==
    [i \in 1..Len(steps) |-> StepLine(i, steps[i][1], "→", steps[i][2])]

RECURSIVE ExtractLines(_, _)
ExtractLines(text, n) ==
    IF n = 0 THEN << >>
    ELSE LET prev == ExtractLines(text, n - 1)
         IN IF ExtractPattern(text[n])
            THEN Append(prev, StepLine(Len(prev) + 1, text[n].agent, "→", text[n].cap))
            ELSE prev

_extract_step_lines(plan_text) == ExtractLines(plan_text, Len(plan_text))

RECURSIVE FilterLines(_, _, _)
FilterLines(step_lines, registry, n) ==
    IF n = 0 THEN << >>
    ELSE LET prev == FilterLines(step_lines, registry, n - 1)
             s_norm == NormalizeArrow(step_lines[n])
         IN IF /\ FilterPattern(s_norm)
               /\ HasKey(registry, s_norm.agent)
               /\ s_norm.cap \in _capabilities_for(registry, s_norm.agent)
            THEN Append(prev, StepLine(Len(prev) + 1, s_norm.agent, "→", s_norm.cap))
            ELSE prev

_filter_registered_steps(step_lines, registry) ==
    FilterLines(step_lines, registry, Len(step_lines))

\* the lines _sanitize_plan_output keeps (it raises when there is none)
_sanitize_plan_output(raw_plan, registry) ==
    _filter_registered_steps(_extract_step_lines(raw_plan), registry)

\* plan.strip().upper().startswith("UNSUPPORTED")
StartsWithUnsupported(text) == Len(text) > 0 /\ text[1].kind = "unsupported"

\* ------------------------------------------------- validation and repair
\* step 1 of _validate_and_repair_plan
CleanSteps(steps, catalog) ==
    SelectSeq(steps, LAMBDA s :
        /\ HasKey(catalog, s[1])
        /\ InSeq(s[2], Entry(catalog, s[1]).capabilities))

have_specs(catalog) ==
    \E i \in 1..Len(catalog) :
        Truthy(catalog[i].input_spec) \/ Truthy(catalog[i].output_spec)

\* variant: the alternative is not required to advertise the capability
FindAlternative_NoCapCheck(catalog, repaired, agent, cap, prev_out_spec) ==
    FirstIndex(catalog, LAMBDA meta :
        /\ ~(InSeq(<<meta.name, cap>>, repaired) \/ meta.name = agent)
        /\ _are_specs_compatible(prev_out_spec, meta.input_spec))

\* variant: an alternative already used with the capability is used again
FindAlternative_Reuse(catalog, repaired, agent, cap, prev_out_spec) ==
    FirstIndex(catalog, LAMBDA meta :
        /\ ~(meta.name = agent)
        /\ InSeq(cap, meta.capabilities)
        /\ _are_specs_compatible(prev_out_spec, meta.input_spec))

\* the soft repair: index in the catalog of the first other agent that
\* advertises cap, is not yet in repaired with cap and accepts prev_out_spec
FindAlternative(catalog, repaired, agent, cap, prev_out_spec) ==
    FirstIndex(catalog, LAMBDA meta :
        /\ ~(InSeq(<<meta.name, cap>>, repaired) \/ meta.name = agent)
        /\ InSeq(cap, meta.capabilities)
        /\ _are_specs_compatible(prev_out_spec, meta.input_spec))

\* one iteration of the loop of step 3; st = [repaired, prev_out_spec]
RepairStep(st, idx, step, catalog) ==
    LET agent == step[1]
        cap == step[2]
        curr_in == Entry(catalog, agent).input_spec
        curr_out == Entry(catalog, agent).output_spec
        alt == FindAlternative(catalog, st.repaired, agent, cap, st.prev_out_spec)
    IN IF idx = 1
       THEN [repaired |-> Append(st.repaired, step), prev_out_spec |-> curr_out]
       ELSE IF _are_specs_compatible(st.prev_out_spec, curr_in)
            THEN [repaired |-> Append(st.repaired, step), prev_out_spec |-> curr_out]
            ELSE IF alt # 0
                 THEN [repaired |-> Append(st.repaired, <<catalog[alt].name, cap>>),
                       prev_out_spec |-> catalog[alt].output_spec]
                 ELSE st

\* "Ensure a single terminal audit step if available and not already present"
AppendAudit(steps, catalog) ==
    LET audit_cap == _find_audit_capability(catalog)
    IN IF audit_cap # NoStep /\ ~InSeq(audit_cap, steps)
       THEN Append(steps, audit_cap)
       ELSE steps

\* ------------------------------------------------------- environment
\* replies of the feasibility LLM call: the HTTP call fails, the content is
\* not JSON, or the content is some JSON value
GateApiError == [kind |-> "api_error", val |-> None]
GateNotJson == [kind |-> "text", val |-> None]
GateJson(v) == [kind |-> "json", val |-> v]

GateReplies ==
    { GateApiError, GateNotJson,
      GateJson(Dict([feasible |-> Bool(TRUE)])),
      GateJson(Dict([feasible |-> Bool(FALSE)])),
      GateJson(Dict([feasible |-> Str("false")])),
      GateJson(Dict([reason |-> Str("n/a")])),
      GateJson(List(<< >>)) }

\* lines the planning LLM may put in its reply
ReplyLines ==
    { StepLine(1, "A", "→", "do"),
      StepLine(2, "B", "→", "work"),
      StepLine(2, "C", "->", "work"),
      StepLine(3, "Aud", "→", "audit_trace"),
      StepLine(3, "Aud", "→", "review"),
      StepLine(2, "web-fetch", "→", "work"),
      StepLine(1, "noop", "→", "noop"),
      UnsupportedLine }

\* lines a client may put in the plan text of /execute_plan
PlanLines ==
    { StepLine(1, "A", "→", "do"),
      StepLine(2, "C", "->", "work"),
      StepLine(3, "Aud", "→", "audit_trace"),
      StepLine(1, "ghost", "→", "do"),
      StepLine(2, "A", "→", "work"),
      StepLine(2, "web-fetch", "→", "work"),
      CommentLine }

Texts(lines, maxLen) == UNION {[1..n -> lines] : n \in 0..maxLen}

\* JSON bodies a worker agent may return from /execute
Outputs ==
    { Dict([ok |-> Bool(TRUE), waterdrops_used |-> Num(1)]),
      List(<<Str("a")>>),
      None }

\* ways the POST to /execute fails: transport error or timeout
\* (requests.post), non-2xx (raise_for_status), non-JSON body (resp.json)
PostFailures == {"ConnectionError", "HTTPError", "JSONDecodeError"}

Requests ==
    {[endpoint |-> e, goal |-> g, plan |-> << >>] :
        e \in {"/plan", "/run_goal"}, g \in {"", "do it"}}
    \cup {[endpoint |-> "/execute_plan", goal |-> "", plan |-> p] :
        p \in Texts(PlanLines, MaxPlanLen)}

\* water amounts in hundredths of a waterdrop
PlanWater == 100
ExecWater == 2

\* --------------------------------------------------------------- state
VARIABLES
    agents_registry,    \* main.py agents_registry
    request,            \* the HTTP request being served
    pc,                 \* position of the request handler
    catalog,            \* generate_plan_with_mistral: catalog
    gate_reply,         \* reply of the feasibility call (NoReply before it)
    raw,                \* generate_plan_with_mistral: raw LLM reply
    steps,              \* generate_plan_with_mistral: steps
    cleaned,            \* _validate_and_repair_plan: cleaned
    vst,                \* _validate_and_repair_plan: repaired, prev_out_spec
    vidx,               \* _validate_and_repair_plan: loop position (1-based)
    audit_appended,     \* history: the validator appended the audit step
    llm_calls,          \* history: LLM calls made, in order
    plan,               \* execute_plan_string: plan
    line,               \* execute_plan_string: index of the next plan line
    results,            \* execute_plan_string: results
    origin,             \* history: plan line index of each results entry
    context,            \* execute_plan_string: context
    business_context,   \* execute_plan_string: business_context
    pending,            \* execute_plan_string: locals of the step being posted
    posts,              \* history: POSTs to /execute, with their outcome
    water,              \* tools/water.py: cached counter and file content
    exc,                \* exception propagating out of the core
    response,           \* HTTP response of the handler
    registration,       \* a concurrent POST /register_agent and its response
    registry_at_start,  \* history: agents_registry when execute_plan_string was entered
    writers,            \* register_agent: position and locals of each serving thread
    agents_file,        \* content of agents.json on disk
    registry_states,    \* history: every value agents_registry has had
    reads,              \* response of a registry read (NoRead before it)
    loaded,             \* water.py: _aiwaterdrops_consumed is not None
    meters,             \* increment_aiwaterdrops: position and locals of each calling thread
    observed,           \* history: values get_aiwaterdrops returned, in order
    water_start,        \* history: the counter's value when the process started
    steps_payload,      \* auditor run_audit: steps_payload
    api_key,            \* auditor: license_keys.json holds a Mistral key
    audit_pc,           \* auditor: position of run_audit
    pidx,               \* auditor _build_agent_policy_map: loop position (1-based)
    policies,           \* auditor _build_agent_policy_map: policies
    policy_gets,        \* history: GET <base_url>/audit_policy requests made, in order
    llm_input,          \* history: argument of audit_trace_with_mistral (NoLLMCall before it)
    llm_reply,          \* history: what the Mistral call produced
    audit_response,     \* auditor: HTTP response of POST /run
    license_file,       \* orchestrator: license_keys.json ("absent", "no_key", "key")
    manifest_check      \* register_agent: raw_caps, normalized_caps, and these normalized again

vars == <<agents_registry, request, pc, catalog, gate_reply, raw, steps,
          cleaned, vst, vidx, audit_appended, llm_calls, plan, line, results,
          origin, context, business_context, pending, posts, water, exc,
          response, registration, registry_at_start, writers, agents_file,
          registry_states, reads, loaded, meters, observed, water_start,
          steps_payload, api_key, audit_pc, pidx, policies, policy_gets, llm_input,
          llm_reply, audit_response, license_file, manifest_check>>

\* state of the services modelled at thread granularity
registryVars == <<writers, agents_file, registry_states, reads>>
meterVars == <<loaded, meters, observed, water_start>>
auditVars == <<steps_payload, api_key, audit_pc, pidx, policies, policy_gets, llm_input,
               llm_reply, audit_response>>
serviceVars == <<registryVars, meterVars, auditVars, license_file, manifest_check>>

plannerVars == <<catalog, gate_reply, raw, steps, cleaned, vst, vidx,
                 audit_appended, llm_calls>>
executorVars == <<plan, line, results, origin, context, business_context,
                  pending, posts>>

NoReply == [kind |-> "none", val |-> None]
NoExc == [class |-> "none", status |-> 0, detail |-> ""]
NoResponse == [status |-> 0, detail |-> "", body |-> None]
Raise(class, detail) == [class |-> class, status |-> 0, detail |-> detail]
HTTPException(status, detail) == [class |-> "HTTPException", status |-> status, detail |-> detail]
NoPending == [agent_name |-> "", capability |-> "", payload_input |-> None,
              custom_handler |-> None, url |-> ""]
EmptyRepair == [repaired |-> << >>, prev_out_spec |-> None]
NoRegistration == [pc |-> "Idle", name |-> "", base_url |-> "", status |-> 0]

\* json.dump(registry, f, indent=2): the text is produced piece by piece,
\* an opening brace, one piece per key of the dict, a closing brace
NoRecord == [name |-> "", base_url |-> "",
             manifest |-> [capabilities |-> << >>, input_spec |-> None,
                           output_spec |-> None]]
ChunkOpen == [tok |-> "{", rec |-> NoRecord]
ChunkClose == [tok |-> "}", rec |-> NoRecord]
ChunkEntry(rec) == [tok |-> "entry", rec |-> rec]
Serialize(registry) ==
    <<ChunkOpen>> \o [i \in 1..Len(registry) |-> ChunkEntry(registry[i])]
                  \o <<ChunkClose>>

\* threads of the pool serving POST /register_agent
Writers == {"w1", "w2"}
NoAgent == [name |-> "", base_url |-> "", capabilities |-> << >>]
IdleWriter == [pc |-> "Idle", agent |-> NoAgent, size |-> 0, it |-> 0,
               buffer |-> << >>, status |-> 0]
NoRead == [op |-> "none", name |-> "", status |-> 0, body |-> << >>]

\* threads calling into tools/water.py
Meters == {"t1", "t2"}
IdleMeter == [pc |-> "Idle", amount |-> 0, local |-> 0]

\* auditor: nothing was passed to the LLM stage, nothing came back
NoLLMCall == [called |-> FALSE, steps |-> << >>, policies |-> << >>, prompt |-> << >>]
NoAuditReply == [kind |-> "none", val |-> None]
NoAuditResponse == [status |-> 0, detail |-> "", agent |-> "", body |-> None]
NoManifest == [pc |-> "Idle", raw |-> None, once |-> None, twice |-> None]

Init ==
    /\ agents_registry \in Registries
    /\ request \in Requests
    /\ pc = "Idle"
    /\ catalog = << >>
    /\ gate_reply = NoReply
    /\ raw = << >>
    /\ steps = << >>
    /\ cleaned = << >>
    /\ vst = EmptyRepair
    /\ vidx = 0
    /\ audit_appended = FALSE
    /\ llm_calls = << >>
    /\ plan = << >>
    /\ line = 0
    /\ results = << >>
    /\ origin = << >>
    /\ context = None
    /\ business_context = None
    /\ pending = NoPending
    /\ posts = << >>
    /\ water = [mem |-> 0, file |-> 0]
    /\ exc = NoExc
    /\ response = NoResponse
    /\ registration = NoRegistration
    /\ registry_at_start = << >>
    /\ writers = [w \in Writers |-> IdleWriter]
    /\ agents_file = Serialize(agents_registry)
    /\ registry_states = {agents_registry}
    /\ reads = NoRead
    /\ license_file = "key"
    /\ loaded = TRUE
    /\ meters = [t \in Meters |-> IdleMeter]
    /\ observed = << >>
    /\ water_start = 0
    /\ steps_payload = << >>
    /\ api_key = TRUE
    /\ audit_pc = "Idle"
    /\ pidx = 0
    /\ policies = << >>
    /\ policy_gets = << >>
    /\ llm_input = NoLLMCall
    /\ llm_reply = NoAuditReply
    /\ audit_response = NoAuditResponse
    /\ manifest_check = NoManifest

\* ------------------------------------------------------ water counter
\* increment_aiwaterdrops: add to the cached counter, then save; the save
\* raises when the file cannot be written
Increment(w, amount, disk_ok) ==
    [mem |-> w.mem + amount,
     file |-> IF disk_ok THEN w.mem + amount ELSE w.file]

\* ----------------------------------------------------- planner actions
\* variant: a failed feasibility call lets the goal through
_is_goal_feasible_with_catalog_Optimistic(reply) ==
    IF reply.kind = "api_error" THEN TRUE
    ELSE IF reply.kind = "text" THEN FALSE
    ELSE IF ~IsDict(reply.val) THEN FALSE
    ELSE Truthy(Get(reply.val, "feasible", Bool(FALSE)))

\* _is_goal_feasible_with_catalog: the verdict computed from the reply
_is_goal_feasible_with_catalog(reply) ==
    IF reply.kind = "api_error" THEN FALSE          \* requests / raise_for_status
    ELSE IF reply.kind = "text" THEN FALSE          \* json.loads raises
    ELSE IF ~IsDict(reply.val) THEN FALSE           \* verdict.get raises
    ELSE Truthy(Get(reply.val, "feasible", Bool(FALSE)))

\* plan_goal / run_goal up to the call of generate_plan_from_goal
ReceiveGoal ==
    /\ pc = "Idle"
    /\ request.endpoint \in {"/plan", "/run_goal"}
    /\ IF request.goal = ""
       THEN /\ response' = [status |-> 400, detail |-> "Missing 'goal' field.", body |-> None]
            /\ pc' = "Done"
       ELSE /\ pc' = "CollectCatalog"
            /\ UNCHANGED response
    /\ UNCHANGED <<serviceVars, agents_registry, registration, registry_at_start, request, plannerVars, executorVars, water, exc>>

\* generate_plan_with_mistral: catalog = _collect_catalog(agents_registry)
CollectCatalog ==
    /\ pc = "CollectCatalog"
    /\ IF Len(agents_registry) = 0
       THEN /\ exc' = Raise("ValueError", "No agents registered.")
            /\ pc' = "Reject"
            /\ UNCHANGED catalog
       ELSE /\ catalog' = _collect_catalog(agents_registry)
            /\ pc' = "FeasibilityGate"
            /\ UNCHANGED exc
    /\ UNCHANGED <<serviceVars, agents_registry, registration, registry_at_start, request, gate_reply, raw, steps, cleaned, vst,
                   vidx, audit_appended, llm_calls, executorVars, water, response>>

\* generate_plan_with_mistral: the feasibility gate; without a key the
\* bearer token is empty and the API refuses the call
FeasibilityGate ==
    /\ pc = "FeasibilityGate"
    /\ \E reply \in (IF license_file = "key" THEN GateReplies ELSE {GateApiError}) :
        /\ gate_reply' = reply
        /\ llm_calls' = Append(llm_calls, "feasibility")
        /\ IF _is_goal_feasible_with_catalog(reply)
           THEN pc' = "Generate" /\ UNCHANGED exc
           ELSE /\ exc' = Raise("Exception", "No executable steps found for the current registry.")
                /\ pc' = "Reject"
    /\ UNCHANGED <<serviceVars, agents_registry, registration, registry_at_start, request, catalog, raw, steps, cleaned, vst,
                   vidx, audit_appended, executorVars, water, response>>

\* generate_plan_with_mistral: the plan-generation call
Generate ==
    /\ pc = "Generate"
    /\ llm_calls' = Append(llm_calls, "generate")
    /\ \/ /\ exc' = Raise("Exception", "Mistral API request failed")
          /\ pc' = "Reject"
          /\ UNCHANGED raw
       \/ \E text \in Texts(ReplyLines, MaxReplyLen) :
          /\ raw' = text
          /\ pc' = "Parse"
          /\ UNCHANGED exc
    /\ UNCHANGED <<serviceVars, agents_registry, registration, registry_at_start, request, catalog, gate_reply, steps, cleaned,
                   vst, vidx, audit_appended, executorVars, water, response>>

\* steps = _parse_llm_plan(raw); a lone noop step means the LLM gave up
Parse ==
    /\ pc = "Parse"
    /\ steps' = IF _parse_llm_plan(raw) = << <<"noop", "noop">> >>
                THEN << >> ELSE _parse_llm_plan(raw)
    /\ vidx' = 0
    /\ pc' = "ValidateRepair"
    /\ UNCHANGED <<serviceVars, agents_registry, registration, registry_at_start, request, catalog, gate_reply, raw, cleaned, vst,
                   audit_appended, llm_calls, executorVars, water, exc, response>>

\* _validate_and_repair_plan, steps 1 and 2
ValidateClean ==
    /\ pc = "ValidateRepair"
    /\ vidx = 0
    /\ cleaned' = CleanSteps(steps, catalog)
    /\ IF Len(cleaned') = 0
       THEN /\ steps' = << >>
            /\ exc' = Raise("Exception", "No executable steps found for the current registry.")
            /\ pc' = "Reject"
            /\ UNCHANGED <<vst, vidx, audit_appended>>
       ELSE IF ~have_specs(catalog)
       THEN /\ steps' = AppendAudit(cleaned', catalog)
            /\ audit_appended' = (Len(steps') > Len(cleaned'))
            /\ pc' = "Emit"
            /\ UNCHANGED <<vst, vidx, exc>>
       ELSE /\ vst' = EmptyRepair
            /\ vidx' = 1
            /\ UNCHANGED <<steps, audit_appended, pc, exc>>
    /\ UNCHANGED <<serviceVars, agents_registry, registration, registry_at_start, request, catalog, gate_reply, raw, llm_calls,
                   executorVars, water, response>>

\* _validate_and_repair_plan, one iteration of the loop of step 3
ValidateRepairStep ==
    /\ pc = "ValidateRepair"
    /\ vidx \in 1..Len(cleaned)
    /\ vst' = RepairStep(vst, vidx, cleaned[vidx], catalog)
    /\ vidx' = vidx + 1
    /\ UNCHANGED <<serviceVars, agents_registry, registration, registry_at_start, request, pc, catalog, gate_reply, raw, steps,
                   cleaned, audit_appended, llm_calls, executorVars, water, exc,
                   response>>

\* _validate_and_repair_plan after the loop, and the emptiness check of
\* generate_plan_with_mistral
ValidateFinish ==
    /\ pc = "ValidateRepair"
    /\ vidx > Len(cleaned)
    /\ steps' = AppendAudit(vst.repaired, catalog)
    /\ audit_appended' = (Len(steps') > Len(vst.repaired))
    /\ IF Len(steps') = 0
       THEN /\ exc' = Raise("Exception", "No executable steps found for the current registry.")
            /\ pc' = "Reject"
       ELSE pc' = "Emit" /\ UNCHANGED exc
    /\ UNCHANGED <<serviceVars, agents_registry, registration, registry_at_start, request, catalog, gate_reply, raw, cleaned, vst,
                   vidx, llm_calls, executorVars, water, response>>

\* generate_plan_with_mistral renders and returns (plan_text, 1), which
\* releases its local raw;
\* generate_plan_from_goal charges the water, looks for an explicit refusal
\* and sanitizes the text
Emit ==
    /\ pc = "Emit"
    /\ \E disk_ok \in BOOLEAN :
        LET plan_text == RenderPlan(steps)
            clean_plan == _sanitize_plan_output(plan_text, agents_registry)
        IN /\ water' = Increment(water, PlanWater, disk_ok)
           /\ IF ~disk_ok
              THEN /\ exc' = Raise("OSError", "cannot write aiwaterdrops.json")
                   /\ pc' = "Reject"
                   /\ UNCHANGED <<plan, line, registry_at_start, raw>>
              ELSE IF StartsWithUnsupported(plan_text)
              THEN /\ exc' = HTTPException(422, "Unsupported goal")
                   /\ pc' = "Reject"
                   /\ UNCHANGED <<plan, line, registry_at_start, raw>>
              ELSE IF Len(clean_plan) = 0
              THEN /\ exc' = Raise("RuntimeError", "No executable steps found for the current registry.")
                   /\ pc' = "Reject"
                   /\ UNCHANGED <<plan, line, registry_at_start, raw>>
              ELSE /\ plan' = clean_plan
                   /\ registry_at_start' = agents_registry
                   /\ raw' = << >>
                   /\ line' = 1
                   /\ pc' = "Loop"
                   /\ UNCHANGED exc
    /\ UNCHANGED <<serviceVars, agents_registry, registration, request, catalog, gate_reply, steps, cleaned, vst, vidx, audit_appended, llm_calls, results, origin, context,
                   business_context, pending, posts, response>>

\* the except clauses of generate_plan_from_goal, then of the endpoint
PlanErrorStatus(endpoint, e) ==
    LET wrapped == IF e.class = "HTTPException" THEN e
                   ELSE Raise("RuntimeError", e.detail)
    IN IF endpoint = "/plan" /\ wrapped.class = "HTTPException"
       THEN wrapped.status
       ELSE 500

Reject ==
    /\ pc = "Reject"
    /\ response' = [status |-> PlanErrorStatus(request.endpoint, exc),
                    detail |-> exc.detail, body |-> None]
    /\ pc' = "Done"
    /\ UNCHANGED <<serviceVars, agents_registry, registration, registry_at_start, request, plannerVars, executorVars, water, exc>>

\* ---------------------------------------------------- executor actions
\* execute_plan: POST /execute_plan
ReceivePlan ==
    /\ pc = "Idle"
    /\ request.endpoint = "/execute_plan"
    /\ IF Len(request.plan) = 0
       THEN /\ response' = [status |-> 400, detail |-> "Missing 'plan' field.", body |-> None]
            /\ pc' = "Done"
            /\ UNCHANGED <<plan, line, registry_at_start>>
       ELSE /\ plan' = request.plan
            /\ registry_at_start' = agents_registry
            /\ line' = 1
            /\ pc' = "Loop"
            /\ UNCHANGED response
    /\ UNCHANGED <<serviceVars, agents_registry, registration, request, plannerVars, results, origin, context,
                   business_context, pending, posts, water, exc>>

\* the line the loop is looking at, after strip() and arrow normalisation
step_line == NormalizeArrow(plan[line])

AtLine == pc = "Loop" /\ line \in 1..Len(plan)

\* _clean_input
_clean_input(ctx) ==
    IF IsDict(ctx)
    THEN Dict([k \in DOMAIN ctx.val \ {"waterdrops_used"} |-> ctx.val[k]])
    ELSE ctx

\* r.get(key) on a trace entry
EntryGet(r, key) == IF key \in DOMAIN r THEN r[key] ELSE None

\* variant: every prior entry is projected, also those that name no agent
TraceProjection_AllEntries(trace) ==
    Dict([steps |-> List([i \in 1..Len(trace) |->
                Dict([agent |-> IF "agent" \in DOMAIN trace[i]
                                THEN Str(trace[i].agent) ELSE None,
                      input |-> EntryGet(trace[i], "input_used"),
                      output |-> EntryGet(trace[i], "output"),
                      error |-> EntryGet(trace[i], "error")])])])

\* {"steps": [{agent, input, output, error} for r in results if "agent" in r]}
TraceProjection(trace) ==
    LET withAgent == SelectSeq(trace, LAMBDA r : "agent" \in DOMAIN r)
    IN Dict([steps |-> List([i \in 1..Len(withAgent) |->
                Dict([agent |-> Str(withAgent[i].agent),
                      input |-> EntryGet(withAgent[i], "input_used"),
                      output |-> EntryGet(withAgent[i], "output"),
                      error |-> EntryGet(withAgent[i], "error")])])])

\* custom_input_handler of the first manifest capability named capability
CustomHandler(registry, agent_name, capability) ==
    LET manifest_caps == Entry(registry, agent_name).manifest.capabilities
        i == FirstIndex(manifest_caps, LAMBDA c : c.name = capability)
    IN IF i = 0 THEN None ELSE manifest_caps[i].custom_input_handler

IsMeta(handler) == handler = Str("use_execution_trace")

\* blank lines and comments are passed over without a trace entry
SkipLine ==
    /\ AtLine
    /\ plan[line].kind \in {"blank", "comment"}
    /\ line' = line + 1
    /\ UNCHANGED <<serviceVars, agents_registry, registration, registry_at_start, request, pc, plannerVars, plan, results, origin,
                   context, business_context, pending, posts, water, exc, response>>

Unrecognized ==
    /\ AtLine
    /\ plan[line].kind \notin {"blank", "comment"}
    /\ ~ExecPattern(step_line)
    /\ results' = Append(results, [step |-> step_line, error |-> Str("Unrecognized format")])
    /\ origin' = Append(origin, line)
    /\ line' = line + 1
    /\ UNCHANGED <<serviceVars, agents_registry, registration, registry_at_start, request, pc, plannerVars, plan, context,
                   business_context, pending, posts, water, exc, response>>

\* variant: an unregistered agent ends the execution
Unregistered_Halt ==
    /\ AtLine
    /\ ExecPattern(step_line)
    /\ ~HasKey(agents_registry, step_line.agent)
    /\ results' = Append(results, [step |-> step_line, error |-> Str("Agent not registered")])
    /\ origin' = Append(origin, line)
    /\ pc' = "Finish"
    /\ UNCHANGED <<serviceVars, agents_registry, registration, registry_at_start, request, line, plannerVars,
                   plan, context, business_context, pending, posts, water, exc, response>>

Unregistered ==
    /\ AtLine
    /\ ExecPattern(step_line)
    /\ ~HasKey(agents_registry, step_line.agent)
    /\ results' = Append(results, [step |-> step_line, error |-> Str("Agent not registered")])
    /\ origin' = Append(origin, line)
    /\ line' = line + 1
    /\ UNCHANGED <<serviceVars, agents_registry, registration, registry_at_start, request, pc, plannerVars, plan, context,
                   business_context, pending, posts, water, exc, response>>

\* variant: an unadvertised capability is recorded like a failed dispatch
NotAdvertised_AsError ==
    /\ AtLine
    /\ ExecPattern(step_line)
    /\ HasKey(agents_registry, step_line.agent)
    /\ step_line.cap \notin _capabilities_for(agents_registry, step_line.agent)
    /\ results' = Append(results,
          [step |-> step_line, agent |-> step_line.agent, capability |-> step_line.cap,
           input_used |-> None, output |-> None,
           error |-> Str("Capability not advertised by agent manifest")])
    /\ origin' = Append(origin, line)
    /\ line' = line + 1
    /\ UNCHANGED <<serviceVars, agents_registry, registration, registry_at_start, request, pc, plannerVars, plan, context,
                   business_context, pending, posts, water, exc, response>>

NotAdvertised ==
    /\ AtLine
    /\ ExecPattern(step_line)
    /\ HasKey(agents_registry, step_line.agent)
    /\ step_line.cap \notin _capabilities_for(agents_registry, step_line.agent)
    /\ results' = Append(results,
          [step |-> step_line, agent |-> step_line.agent, capability |-> step_line.cap,
           skipped |-> TRUE, reason |-> "Capability not advertised by agent manifest"])
    /\ origin' = Append(origin, line)
    /\ line' = line + 1
    /\ UNCHANGED <<serviceVars, agents_registry, registration, registry_at_start, request, pc, plannerVars, plan, context,
                   business_context, pending, posts, water, exc, response>>

\* variant: the POST is sent without waiting for its reply
Dispatch_NoWait ==
    /\ AtLine
    /\ ExecPattern(step_line)
    /\ HasKey(agents_registry, step_line.agent)
    /\ step_line.cap \in _capabilities_for(agents_registry, step_line.agent)
    /\ posts' = Append(posts, [line |-> line,
                               url |-> Entry(agents_registry, step_line.agent).base_url,
                               capability |-> step_line.cap,
                               input |-> _clean_input(context), status |-> "pending"])
    /\ line' = line + 1
    /\ UNCHANGED <<serviceVars, agents_registry, registration, registry_at_start, request, pc, plannerVars, plan, results, origin,
                   context, business_context, pending, water, exc, response>>

\* the try block up to requests.post: build the payload and send it
Dispatch ==
    /\ AtLine
    /\ ExecPattern(step_line)
    /\ HasKey(agents_registry, step_line.agent)
    /\ step_line.cap \in _capabilities_for(agents_registry, step_line.agent)
    /\ LET agent_name == step_line.agent
           capability == step_line.cap
           custom_handler == CustomHandler(agents_registry, agent_name, capability)
           payload_input == IF IsMeta(custom_handler)
                            THEN TraceProjection(results)
                            ELSE _clean_input(context)
           url == Entry(agents_registry, agent_name).base_url
       IN /\ pending' = [agent_name |-> agent_name, capability |-> capability,
                         payload_input |-> payload_input,
                         custom_handler |-> custom_handler, url |-> url]
          /\ posts' = Append(posts, [line |-> line, url |-> url,
                                     capability |-> capability,
                                     input |-> payload_input, status |-> "pending"])
    /\ pc' = "Posting"
    /\ UNCHANGED <<serviceVars, agents_registry, registration, registry_at_start, request, plannerVars, plan, line, results, origin,
                   context, business_context, water, exc, response>>

SetStatus(log, status) == [log EXCEPT ![Len(log)].status = status]

\* the POST returned 2xx with a JSON body
AgentReturns ==
    /\ pc = "Posting"
    /\ \E out \in Outputs :
        /\ results' = Append(results,
              [step |-> step_line, agent |-> pending.agent_name,
               capability |-> pending.capability,
               input_used |-> IF pending.payload_input # None
                              THEN pending.payload_input ELSE Dict(<< >>),
               output |-> out, error |-> None])
        /\ context' = out
        /\ business_context' = IF ~IsMeta(pending.custom_handler) THEN out
                               ELSE business_context
    /\ origin' = Append(origin, line)
    /\ posts' = SetStatus(posts, "ok")
    /\ pending' = NoPending
    /\ line' = line + 1
    /\ pc' = "Loop"
    /\ UNCHANGED <<serviceVars, agents_registry, registration, registry_at_start, request, plannerVars, plan, water, exc, response>>

\* variant: the except clause records the error and the loop goes on
AgentFails_NoBreak ==
    /\ pc = "Posting"
    /\ \E failure \in PostFailures :
        /\ results' = Append(results,
              [step |-> step_line, agent |-> pending.agent_name,
               capability |-> pending.capability,
               input_used |-> pending.payload_input,
               output |-> None, error |-> Str(failure)])
        /\ posts' = SetStatus(posts, failure)
    /\ origin' = Append(origin, line)
    /\ pending' = NoPending
    /\ line' = line + 1
    /\ pc' = "Loop"
    /\ UNCHANGED <<serviceVars, agents_registry, registration, registry_at_start, request, plannerVars, plan, context,
                   business_context, water, exc, response>>

\* the POST raised: the except clause records the error and breaks
AgentFails ==
    /\ pc = "Posting"
    /\ \E failure \in PostFailures :
        /\ results' = Append(results,
              [step |-> step_line, agent |-> pending.agent_name,
               capability |-> pending.capability,
               input_used |-> pending.payload_input,
               output |-> None, error |-> Str(failure)])
        /\ posts' = SetStatus(posts, failure)
    /\ origin' = Append(origin, line)
    /\ pending' = NoPending
    /\ pc' = "Finish"
    /\ UNCHANGED <<serviceVars, agents_registry, registration, registry_at_start, request, plannerVars, plan, line, context,
                   business_context, water, exc, response>>

\* the for loop is exhausted
LoopExit ==
    /\ pc = "Loop"
    /\ line > Len(plan)
    /\ pc' = "Finish"
    /\ UNCHANGED <<serviceVars, agents_registry, registration, registry_at_start, request, plannerVars, executorVars, water, exc,
                   response>>

\* variant: final_output is the last output of any step
Finish_LastOutput ==
    /\ pc = "Finish"
    /\ \E disk_ok \in BOOLEAN :
        LET final_context == context
            result == [trace |-> results,
                       final_output |-> final_context,
                       total_waterdrops_used |->
                           IF IsDict(final_context)
                           THEN Get(final_context, "waterdrops_used", Num(0))
                           ELSE Num(0)]
        IN /\ water' = Increment(water, ExecWater, disk_ok)
           /\ IF disk_ok
              THEN /\ response' = [status |-> 200, detail |-> "", body |-> result]
                   /\ UNCHANGED exc
              ELSE /\ exc' = Raise("OSError", "cannot write aiwaterdrops.json")
                   /\ response' = [status |-> 500, detail |-> exc'.detail, body |-> None]
    /\ pc' = "Done"
    /\ UNCHANGED <<serviceVars, agents_registry, registration, registry_at_start, request, plannerVars,
                   executorVars>>

\* after the loop: charge the water, build the result; the endpoint answers
Finish ==
    /\ pc = "Finish"
    /\ \E disk_ok \in BOOLEAN :
        LET final_context == IF business_context # None THEN business_context
                             ELSE context
            result == [trace |-> results,
                       final_output |-> final_context,
                       total_waterdrops_used |->
                           IF IsDict(final_context)
                           THEN Get(final_context, "waterdrops_used", Num(0))
                           ELSE Num(0)]
        IN /\ water' = Increment(water, ExecWater, disk_ok)
           /\ IF disk_ok
              THEN /\ response' = [status |-> 200, detail |-> "", body |-> result]
                   /\ UNCHANGED exc
              ELSE /\ exc' = Raise("OSError", "cannot write aiwaterdrops.json")
                   /\ response' = [status |-> 500, detail |-> exc'.detail, body |-> None]
    /\ pc' = "Done"
    /\ UNCHANGED <<serviceVars, agents_registry, registration, registry_at_start, request, plannerVars, executorVars>>

Next ==
    \/ ReceiveGoal
    \/ CollectCatalog
    \/ FeasibilityGate
    \/ Generate
    \/ Parse
    \/ ValidateClean
    \/ ValidateRepairStep
    \/ ValidateFinish
    \/ Emit
    \/ Reject
    \/ ReceivePlan
    \/ SkipLine
    \/ Unrecognized
    \/ Unregistered
    \/ NotAdvertised
    \/ Dispatch
    \/ AgentReturns
    \/ AgentFails
    \/ LoopExit
    \/ Finish

Spec == Init /\ [][Next]_vars

\* ------------------------------------------------ concurrent registration
\* FastAPI runs the synchronous handlers on a thread pool, so a
\* POST /register_agent can be served while a plan is executing.

\* name = cap.get("name") or cap.get("capability") or cap.get("id")
WireName(cap) ==
    IF Truthy(Get(cap, "name", None)) THEN Get(cap, "name", None)
    ELSE IF Truthy(Get(cap, "capability", None)) THEN Get(cap, "capability", None)
    ELSE Get(cap, "id", None)

\* register_agent: capabilities given as strings or objects become objects
RECURSIVE NormalizeCaps(_, _)
NormalizeCaps(raw_caps, n) ==
    IF n = 0 THEN << >>
    ELSE LET prev == NormalizeCaps(raw_caps, n - 1)
             cap == raw_caps[n]
             custom == IF cap.type = "dict" THEN Get(cap, "custom_input_handler", None)
                       ELSE None
         IN IF cap.type = "str"
            THEN Append(prev, [name |-> cap.val, custom_input_handler |-> None])
            ELSE IF cap.type = "dict" /\ Truthy(WireName(cap))
                 THEN Append(prev, [name |-> WireName(cap).val,
                                    custom_input_handler |->
                                        IF Truthy(custom) THEN custom ELSE None])
                 ELSE prev

\* variant: a re-registered name gets a second record
SetAgent_Append(registry, rec) ==
    Append(registry, rec)

\* agents_registry[agent.name] = {...}: a present key keeps its position
SetAgent(registry, rec) ==
    IF HasKey(registry, rec.name)
    THEN [i \in 1..Len(registry) |-> IF registry[i].name = rec.name THEN rec ELSE registry[i]]
    ELSE Append(registry, rec)

\* AgentRegistration bodies with the manifest the agent answers on /manifest
Registrations ==
    { [name |-> "A", base_url |-> "http://A2",
       capabilities |-> <<Str("do")>>],
      [name |-> "A", base_url |-> "http://A",
       capabilities |-> << Dict([name |-> Str("do"),
                                 custom_input_handler |-> Str("use_execution_trace")]),
                           Dict([id |-> Str("work")]) >>] }

RegisterWater == 20

\* POST /register_agent served while execute_plan_string is running
register_agent ==
    /\ registration.pc = "Idle"
    /\ pc \in {"Loop", "Posting"}
    /\ \E agent \in Registrations, reachable \in BOOLEAN, saved \in BOOLEAN, disk_ok \in BOOLEAN :
        LET normalized_caps == NormalizeCaps(agent.capabilities, Len(agent.capabilities))
            rec == [name |-> agent.name, base_url |-> agent.base_url,
                    manifest |-> [capabilities |-> normalized_caps,
                                  input_spec |-> None, output_spec |-> None]]
            answer(status) == [pc |-> "Done", name |-> agent.name,
                               base_url |-> agent.base_url, status |-> status]
        IN IF ~reachable
           THEN /\ registration' = answer(400)
                /\ UNCHANGED <<agents_registry, registry_states, agents_file, water>>
           ELSE /\ agents_registry' = SetAgent(agents_registry, rec)
                /\ registry_states' = registry_states \cup {agents_registry'}
                /\ IF ~saved
                   THEN /\ registration' = answer(500)
                        /\ UNCHANGED <<agents_file, water>>
                   ELSE /\ agents_file' = Serialize(agents_registry')
                        /\ water' = Increment(water, RegisterWater, disk_ok)
                        /\ registration' = answer(IF disk_ok THEN 200 ELSE 500)
    /\ UNCHANGED <<writers, reads, meterVars, auditVars, license_file, manifest_check,
                   registry_at_start, request, pc,
                   plannerVars, executorVars, exc, response>>

NextConcurrent ==
    \/ Next
    \/ register_agent

SpecConcurrent == Init /\ [][NextConcurrent]_vars

\* -------------------------------------------- registry, thread by thread
\* POST /register_agent, GET /agents and GET /agent_manifest/{name} served
\* by pool threads.  A thread can be descheduled wherever it blocks on I/O
\* (the manifest fetch, opening agents.json, closing it) and between the
\* keys json.dump visits; nothing in main.py holds a lock.

requestVars == <<registration, registry_at_start, request, pc, plannerVars,
                 executorVars, exc, response, license_file, manifest_check>>
registryFrame == <<requestVars, meterVars, auditVars>>

RegistryRequests ==
    Registrations
    \cup { [name |-> "web-fetch", base_url |-> "http://web-fetch",
            capabilities |-> <<Str("work")>>] }

\* the record register_agent stores for a validated manifest
AgentRecord(agent) ==
    [name |-> agent.name, base_url |-> agent.base_url,
     manifest |-> [capabilities |-> NormalizeCaps(agent.capabilities,
                                                  Len(agent.capabilities)),
                   input_spec |-> None, output_spec |-> None]]

\* a file opened with "w" is written from offset 0: the text replaces the
\* front of whatever the file holds when the buffer is flushed
Overlay(file, text) ==
    text \o SubSeq(file, Len(text) + 1, Len(file))

ListWater == 5

\* register_agent up to the validated manifest (lines 311-357)
FetchManifest(w) ==
    /\ writers[w].pc = "Idle"
    /\ \E agent \in RegistryRequests, reachable \in BOOLEAN :
        writers' = [writers EXCEPT ![w] =
            IF reachable THEN [@ EXCEPT !.pc = "Store", !.agent = agent]
            ELSE [@ EXCEPT !.pc = "Done", !.agent = agent, !.status = 400]]
    /\ UNCHANGED <<agents_registry, agents_file, registry_states, reads, water, registryFrame>>

\* agents_registry[agent.name] = {...}
StoreRecord(w) ==
    /\ writers[w].pc = "Store"
    /\ agents_registry' = SetAgent(agents_registry, AgentRecord(writers[w].agent))
    /\ registry_states' = registry_states \cup {agents_registry'}
    /\ writers' = [writers EXCEPT ![w].pc = "Open"]
    /\ UNCHANGED <<agents_file, reads, water, registryFrame>>

\* _save_agents: AGENTS_FILE.open("w") truncates the file; json.dump then
\* starts iterating the live dict
OpenSnapshot(w) ==
    /\ writers[w].pc = "Open"
    /\ \E opened \in BOOLEAN :
        IF opened
        THEN /\ agents_file' = << >>
             /\ writers' = [writers EXCEPT ![w] =
                    [@ EXCEPT !.pc = "Dump", !.size = Len(agents_registry),
                              !.it = 0, !.buffer = <<ChunkOpen>>]]
        ELSE /\ writers' = [writers EXCEPT ![w] = [@ EXCEPT !.pc = "Done", !.status = 500]]
             /\ UNCHANGED agents_file
    /\ UNCHANGED <<agents_registry, registry_states, reads, water, registryFrame>>

\* json.dump: the next key of the dict.  A dict that changed size since the
\* iteration began raises RuntimeError; leaving the with block flushes what
\* was buffered, and register_agent answers 500
DumpEntry(w) ==
    /\ writers[w].pc = "Dump"
    /\ writers[w].it < writers[w].size
    /\ IF Len(agents_registry) # writers[w].size
       THEN /\ agents_file' = Overlay(agents_file, writers[w].buffer)
            /\ writers' = [writers EXCEPT ![w] = [@ EXCEPT !.pc = "Done", !.status = 500]]
       ELSE /\ writers' = [writers EXCEPT ![w] =
                   [@ EXCEPT !.it = @ + 1,
                             !.buffer = Append(@, ChunkEntry(agents_registry[writers[w].it + 1]))]]
            /\ UNCHANGED agents_file
    /\ UNCHANGED <<agents_registry, registry_states, reads, water, registryFrame>>

\* json.dump ends, the file is closed, then increment_aiwaterdrops(0.2)
\* and the confirmation
CloseSnapshot(w) ==
    /\ writers[w].pc = "Dump"
    /\ writers[w].it = writers[w].size
    /\ \E disk_ok \in BOOLEAN :
        /\ agents_file' = Overlay(agents_file, Append(writers[w].buffer, ChunkClose))
        /\ water' = Increment(water, RegisterWater, disk_ok)
        /\ writers' = [writers EXCEPT ![w] =
               [@ EXCEPT !.pc = "Done", !.status = IF disk_ok THEN 200 ELSE 500]]
    /\ UNCHANGED <<agents_registry, registry_states, reads, registryFrame>>

\* GET /agents
list_agents ==
    /\ reads = NoRead
    /\ \E disk_ok \in BOOLEAN :
        /\ water' = Increment(water, ListWater, disk_ok)
        /\ reads' = IF disk_ok
                    THEN [op |-> "list_agents", name |-> "", status |-> 200,
                          body |-> [i \in 1..Len(agents_registry) |->
                                      [name |-> agents_registry[i].name,
                                       base_url |-> agents_registry[i].base_url,
                                       capabilities |-> agents_registry[i].manifest.capabilities]]]
                    ELSE [op |-> "list_agents", name |-> "", status |-> 500, body |-> << >>]
    /\ UNCHANGED <<agents_registry, agents_file, registry_states, writers, registryFrame>>

\* GET /agent_manifest/{agent_name}
get_agent_manifest ==
    /\ reads = NoRead
    /\ \E agent_name \in {"A", "B", "web-fetch"} :
        reads' = IF ~HasKey(agents_registry, agent_name)
                 THEN [op |-> "get_agent_manifest", name |-> agent_name, status |-> 404,
                       body |-> << >>]
                 ELSE [op |-> "get_agent_manifest", name |-> agent_name, status |-> 200,
                       body |-> <<Entry(agents_registry, agent_name).manifest>>]
    /\ UNCHANGED <<agents_registry, agents_file, registry_states, writers, water, registryFrame>>

InitRegistry ==
    /\ Init
    /\ agents_registry = RegSeed
    /\ request = [endpoint |-> "/plan", goal |-> "", plan |-> << >>]

NextRegistry ==
    \/ \E w \in Writers : FetchManifest(w)
    \/ \E w \in Writers : StoreRecord(w)
    \/ \E w \in Writers : OpenSnapshot(w)
    \/ \E w \in Writers : DumpEntry(w)
    \/ \E w \in Writers : CloseSnapshot(w)
    \/ list_agents
    \/ get_agent_manifest

SpecRegistry == InitRegistry /\ [][NextRegistry]_vars

\* ------------------------------------------------ water, thread by thread
\* tools/water.py called from pool threads.  _aiwaterdrops_consumed is a
\* module global and the module takes no lock: the lazy load is a file read
\* followed by an assignment, "+=" is a read of the global followed by a
\* store, and the save is a file write after both.

waterFrame == <<agents_registry, registryVars, requestVars, auditVars>>

\* amounts the callers pass, in hundredths of a waterdrop
Amounts == {ExecWater, ListWater}
MaxObserved == 2

\* increment_aiwaterdrops is entered: if _aiwaterdrops_consumed is None
EnterIncrement(t) ==
    /\ meters[t].pc = "Idle"
    /\ \E amount \in Amounts :
        meters' = [meters EXCEPT ![t] =
            [pc |-> IF loaded THEN "Read" ELSE "LoadFile", amount |-> amount, local |-> 0]]
    /\ UNCHANGED <<water, loaded, observed, water_start, waterFrame>>

\* load_aiwaterdrops: json.load(f).get("aiwaterdrops_consumed", 0.0)
ReadFile(t) ==
    /\ meters[t].pc = "LoadFile"
    /\ meters' = [meters EXCEPT ![t] = [@ EXCEPT !.pc = "LoadAssign", !.local = water.file]]
    /\ UNCHANGED <<water, loaded, observed, water_start, waterFrame>>

\* load_aiwaterdrops: _aiwaterdrops_consumed = <the value read>
AssignLoaded(t) ==
    /\ meters[t].pc = "LoadAssign"
    /\ water' = [water EXCEPT !.mem = meters[t].local]
    /\ loaded' = TRUE
    /\ meters' = [meters EXCEPT ![t].pc = "Read"]
    /\ UNCHANGED <<observed, water_start, waterFrame>>

\* _aiwaterdrops_consumed += amount: the global is read
ReadCounter(t) ==
    /\ meters[t].pc = "Read"
    /\ meters' = [meters EXCEPT ![t] = [@ EXCEPT !.pc = "Add", !.local = water.mem]]
    /\ UNCHANGED <<water, loaded, observed, water_start, waterFrame>>

\* _aiwaterdrops_consumed += amount: the sum is stored
StoreCounter(t) ==
    /\ meters[t].pc = "Add"
    /\ water' = [water EXCEPT !.mem = meters[t].local + meters[t].amount]
    /\ meters' = [meters EXCEPT ![t].pc = "CallSave"]
    /\ UNCHANGED <<loaded, observed, water_start, waterFrame>>

\* save_aiwaterdrops(_aiwaterdrops_consumed): the argument is the global now
CallSave(t) ==
    /\ meters[t].pc = "CallSave"
    /\ meters' = [meters EXCEPT ![t] = [@ EXCEPT !.pc = "Save", !.local = water.mem]]
    /\ UNCHANGED <<water, loaded, observed, water_start, waterFrame>>

\* save_aiwaterdrops: the file is written, or the write raises and the
\* exception leaves increment_aiwaterdrops
save_aiwaterdrops(t) ==
    /\ meters[t].pc = "Save"
    /\ \E disk_ok \in BOOLEAN :
        IF disk_ok
        THEN /\ water' = [water EXCEPT !.file = meters[t].local]
             /\ meters' = [meters EXCEPT ![t].pc = "Done"]
        ELSE /\ meters' = [meters EXCEPT ![t].pc = "Raised"]
             /\ UNCHANGED water
    /\ UNCHANGED <<loaded, observed, water_start, waterFrame>>

\* get_aiwaterdrops, loading first when nothing was loaded yet
get_aiwaterdrops ==
    /\ Len(observed) < MaxObserved
    /\ IF loaded
       THEN /\ observed' = Append(observed, water.mem)
            /\ UNCHANGED <<water, loaded>>
       ELSE /\ water' = [water EXCEPT !.mem = water.file]
            /\ loaded' = TRUE
            /\ observed' = Append(observed, water.file)
    /\ UNCHANGED <<meters, water_start, waterFrame>>

\* no orchestrator request is being served and no registration is in flight
InitIdle ==
    /\ agents_registry = RegEmpty
    /\ request = [endpoint |-> "/plan", goal |-> "", plan |-> << >>]
    /\ pc = "Idle"
    /\ catalog = << >>
    /\ gate_reply = NoReply
    /\ raw = << >>
    /\ steps = << >>
    /\ cleaned = << >>
    /\ vst = EmptyRepair
    /\ vidx = 0
    /\ audit_appended = FALSE
    /\ llm_calls = << >>
    /\ plan = << >>
    /\ line = 0
    /\ results = << >>
    /\ origin = << >>
    /\ context = None
    /\ business_context = None
    /\ pending = NoPending
    /\ posts = << >>
    /\ exc = NoExc
    /\ response = NoResponse
    /\ registration = NoRegistration
    /\ registry_at_start = << >>
    /\ writers = [w \in Writers |-> IdleWriter]
    /\ agents_file = Serialize(agents_registry)
    /\ registry_states = {agents_registry}
    /\ reads = NoRead
    /\ license_file = "key"
    /\ loaded = TRUE
    /\ water_start = 0
    /\ water = [mem |-> 0, file |-> 0]
    /\ meters = [t \in Meters |-> IdleMeter]
    /\ observed = << >>

\* a process whose counter was loaded at import (the applications do so)
\* or is still None (the module on its own)
InitWater ==
    /\ agents_registry = RegEmpty
    /\ request = [endpoint |-> "/plan", goal |-> "", plan |-> << >>]
    /\ pc = "Idle"
    /\ catalog = << >>
    /\ gate_reply = NoReply
    /\ raw = << >>
    /\ steps = << >>
    /\ cleaned = << >>
    /\ vst = EmptyRepair
    /\ vidx = 0
    /\ audit_appended = FALSE
    /\ llm_calls = << >>
    /\ plan = << >>
    /\ line = 0
    /\ results = << >>
    /\ origin = << >>
    /\ context = None
    /\ business_context = None
    /\ pending = NoPending
    /\ posts = << >>
    /\ exc = NoExc
    /\ response = NoResponse
    /\ registration = NoRegistration
    /\ registry_at_start = << >>
    /\ writers = [w \in Writers |-> IdleWriter]
    /\ agents_file = Serialize(agents_registry)
    /\ registry_states = {agents_registry}
    /\ reads = NoRead
    /\ license_file = "key"
    /\ loaded \in BOOLEAN
    /\ water_start \in {0, PlanWater}
    /\ water = [mem |-> IF loaded THEN water_start ELSE 0, file |-> water_start]
    /\ meters = [t \in Meters |-> IdleMeter]
    /\ observed = << >>
    /\ steps_payload = << >>
    /\ api_key = TRUE
    /\ audit_pc = "Idle"
    /\ pidx = 0
    /\ policies = << >>
    /\ policy_gets = << >>
    /\ llm_input = NoLLMCall
    /\ llm_reply = NoAuditReply
    /\ audit_response = NoAuditResponse
    /\ manifest_check = NoManifest

NextWater ==
    \/ \E t \in Meters : EnterIncrement(t)
    \/ \E t \in Meters : ReadFile(t)
    \/ \E t \in Meters : AssignLoaded(t)
    \/ \E t \in Meters : ReadCounter(t)
    \/ \E t \in Meters : StoreCounter(t)
    \/ \E t \in Meters : CallSave(t)
    \/ \E t \in Meters : save_aiwaterdrops(t)
    \/ get_aiwaterdrops

SpecWater == InitWater /\ [][NextWater]_vars

\* ---------------------------------------------------------------- auditor
\* agents/auditor/app.py: POST /run.  The agents' /audit_policy endpoints and
\* the Mistral API are the environment.

auditFrame == <<agents_registry, registryVars, meterVars, requestVars>>

MaxTraceLen == 2

\* str.strip() on the strings the model uses
Strip(s) ==
    CASE s = " http://A " -> "http://A"
      [] s = "  " -> ""
      [] OTHER -> s

Step(agent, input, output, error) ==
    [agent |-> agent, input |-> input, output |-> output, error |-> error]

\* StepResult bodies: input and output are arbitrary JSON
AuditSteps ==
    { Step("A", Dict([_agent_base_url |-> Str("http://A")]),
           Dict([summary |-> Str("s"), _agent_base_url |-> Str("http://A2")]), None),
      Step("A", None, Dict([_agent_base_url |-> Str(" http://A ")]), None),
      Step("B", Dict([_agent_base_url |-> Str("http://B")]),
           Dict([articles |-> List(<< >>)]), Str("boom")),
      Step("B", List(<<Str("x")>>), Dict([_agent_base_url |-> Str("http://B")]), None),
      Step("C", Dict([_agent_base_url |-> Str("  ")]), None, None),
      Step("C", Dict([_agent_base_url |-> Num(1)]), Str("text"), None),
      Step("", Dict([_agent_base_url |-> Str("http://A")]), None, None) }

Traces == Texts(AuditSteps, MaxTraceLen)

\* step.get(container_key) or {}
ContainerOf(v) == IF Truthy(v) THEN v ELSE Dict(<< >>)

\* container.get("_agent_base_url") when it is a non-blank string, stripped
UrlIn(container) ==
    LET url == Get(container, "_agent_base_url", None)
    IN IF url.type = "str" /\ Strip(url.val) # "" THEN Strip(url.val) ELSE ""

Located(kind, url) == [kind |-> kind, url |-> url]

\* variant: the output is searched before the input
_require_base_url_from_step_OutputFirst(step) ==
    LET cin == ContainerOf(step.input)
        cout == ContainerOf(step.output)
    IN IF ~IsDict(cout) THEN Located("AttributeError", "")
       ELSE IF UrlIn(cout) # "" THEN Located("url", UrlIn(cout))
       ELSE IF ~IsDict(cin) THEN Located("AttributeError", "")
       ELSE IF UrlIn(cin) # "" THEN Located("url", UrlIn(cin))
       ELSE Located("HTTPException", "")

\* the input is searched, then the output; .get on a list, a string or a
\* number raises AttributeError
_require_base_url_from_step(step) ==
    LET cin == ContainerOf(step.input)
        cout == ContainerOf(step.output)
    IN IF ~IsDict(cin) THEN Located("AttributeError", "")
       ELSE IF UrlIn(cin) # "" THEN Located("url", UrlIn(cin))
       ELSE IF ~IsDict(cout) THEN Located("AttributeError", "")
       ELSE IF UrlIn(cout) # "" THEN Located("url", UrlIn(cout))
       ELSE Located("HTTPException", "")

\* documents an agent can answer on GET /audit_policy
PolicyDocs ==
    { Dict(<< >>),
      Dict([min_score |-> Num(80)]),
      Dict([if_error |-> Str("fail")]),
      Dict([if_error |-> List(<<Str("fail")>>)]),
      Dict([required_output_keys |-> List(<<Str("summary"), Str("title")>>)]),
      Dict([required_output_keys |-> List(<<List(<<Str("summary")>>)>>)]),
      Dict([min_items |-> Dict([articles |-> Num(1)])]),
      Dict([rules |-> List(<<Dict([id |-> Str("R1")])>>)]) }

\* _fetch_audit_policy: the request fails, or the body is JSON
PolicyFetches ==
    {[kind |-> "error", val |-> None], [kind |-> "json", val |-> List(<< >>)]}
    \cup {[kind |-> "json", val |-> p] : p \in PolicyDocs}

AuditError(status, detail, agent) ==
    [status |-> status, detail |-> detail, agent |-> agent, body |-> None]

\* run_audit up to the policy discovery
ReceiveTrace ==
    /\ audit_pc = "Idle"
    /\ IF ~api_key
       THEN /\ audit_response' = AuditError(500, "Missing Mistral API key in license_keys.json", "")
            /\ audit_pc' = "Done"
            /\ UNCHANGED pidx
       ELSE /\ audit_pc' = "Discover"
            /\ pidx' = 1
            /\ UNCHANGED audit_response
    /\ UNCHANGED <<steps_payload, api_key, policies, policy_gets, llm_input, llm_reply,
                   water, auditFrame>>

\* _build_agent_policy_map: one iteration of the loop over the steps
DiscoverPolicy ==
    /\ audit_pc = "Discover"
    /\ pidx <= Len(steps_payload)
    /\ LET s == steps_payload[pidx]
           located == _require_base_url_from_step(s)
           fail(status, detail, agent) ==
               /\ audit_response' = AuditError(status, detail, agent)
               /\ audit_pc' = "Done"
               /\ UNCHANGED <<pidx, policies>>
       IN IF s.agent = ""
          THEN fail(422, "Trace step missing 'agent' name.", "") /\ UNCHANGED policy_gets
          ELSE IF HasKey(policies, s.agent)
          THEN /\ pidx' = pidx + 1
               /\ UNCHANGED <<policies, policy_gets, audit_pc, audit_response>>
          ELSE IF located.kind = "AttributeError"
          THEN fail(500, "Internal Server Error", "") /\ UNCHANGED policy_gets
          ELSE IF located.kind = "HTTPException"
          THEN fail(422, "Missing '_agent_base_url' in step for agent", s.agent)
               /\ UNCHANGED policy_gets
          ELSE \E fetched \in PolicyFetches :
                 /\ policy_gets' = Append(policy_gets, [agent |-> s.agent, url |-> located.url])
                 /\ IF fetched.kind = "json" /\ IsDict(fetched.val)
                    THEN /\ policies' = Append(policies, [name |-> s.agent, policy |-> fetched.val])
                         /\ pidx' = pidx + 1
                         /\ UNCHANGED <<audit_pc, audit_response>>
                    ELSE fail(422, "Failed to fetch audit policy from", "")
    /\ UNCHANGED <<steps_payload, api_key, llm_input, llm_reply, water, auditFrame>>

\* ------------------------------------------------- auditor: LLM stage
\* Python floats, in hundredths; nan compares false with everything
F(v) == [nan |-> FALSE, v |-> v]
NaN == [nan |-> TRUE, v |-> 0]
Less(x, y) == ~x.nan /\ ~y.nan /\ x.v < y.v
\* min(a, b) and max(a, b) keep the first argument unless the second wins
PyMin(a, b) == IF Less(b, a) THEN b ELSE a
PyMax(a, b) == IF Less(a, b) THEN b ELSE a

\* float(v): raises on None, lists, objects and non-numeric strings
ToFloat(v) ==
    CASE v.type = "num" -> [ok |-> TRUE, f |-> F(v.val)]
      [] v.type = "bool" -> [ok |-> TRUE, f |-> F(IF v.val THEN 100 ELSE 0)]
      [] v.type = "str" /\ v.val = "0.9" -> [ok |-> TRUE, f |-> F(90)]
      [] v.type = "str" /\ v.val = "nan" -> [ok |-> TRUE, f |-> NaN]
      [] OTHER -> [ok |-> FALSE, f |-> F(0)]

\* variant: only the upper end is clamped
Clamp_UpperOnly(x) == PyMin(F(100), x)

\* max(0.0, min(1.0, score))
Clamp(x) == PyMax(F(0), PyMin(F(100), x))

\* str(v).lower() on the values the model uses
PyStr(v) ==
    CASE v.type = "str" -> v.val
      [] v.type = "null" -> "None"
      [] OTHER -> "<repr>"
StrLower(s) ==
    CASE s = "OK" -> "ok"
      [] s = "FAIL" -> "fail"
      [] s = "Valid" -> "valid"
      [] s = "None" -> "none"
      [] OTHER -> s

\* a comment is the sequence of its pieces of text; << >> is the empty string
Detail(agent, status, comment, score) ==
    [agent |-> agent, status |-> status, comment |-> comment, score |-> score]

\* one item of parsed["details"] coerced to the schema
CoerceDetail(item) ==
    LET status == StrLower(PyStr(Get(item, "status", Str("warning"))))
        comment == Strip(PyStr(Get(item, "comment", Str(""))))
        score == ToFloat(Get(item, "score", Num(50)))
    IN Detail(PyStr(Get(item, "agent", Str("unknown"))),
              IF status \in {"valid", "warning", "fail"} THEN status ELSE "warning",
              IF comment = "" THEN <<"No comment.">> ELSE <<comment>>,
              Clamp(IF score.ok THEN score.f ELSE F(50)))

\* the global status computed from the details
StatusFrom(details) ==
    IF \E i \in 1..Len(details) : details[i].status = "fail" THEN "fail"
    ELSE IF \E i \in 1..Len(details) : details[i].status = "warning" THEN "partial"
    ELSE "ok"

Audit(raised, status, details) == [raised |-> raised, status |-> status, details |-> details]

\* json.loads(content), the fields coerced; raises when the content is not
\* JSON, is not an object, or holds a detail that is not an object
_parse_and_coerce_audit_json(reply) ==
    IF reply.kind \notin {"json", "wrapped"} \/ ~IsDict(reply.val)
    THEN Audit(TRUE, "", << >>)
    ELSE LET parsed == reply.val
             status == StrLower(PyStr(Get(parsed, "status", Str("partial"))))
             given == Get(parsed, "details", List(<< >>))
             details_in == IF given.type = "list" THEN given.val ELSE << >>
             coerced == [i \in 1..Len(details_in) |-> CoerceDetail(details_in[i])]
             details == IF Len(coerced) = 0
                        THEN <<Detail("unknown", "warning", <<"LLM returned no details.">>, F(20))>>
                        ELSE coerced
         IN IF \E i \in 1..Len(details_in) : ~IsDict(details_in[i])
            THEN Audit(TRUE, "", << >>)
            ELSE Audit(FALSE,
                       IF status \in {"ok", "partial", "fail"} THEN status
                       ELSE StatusFrom(details),
                       details)

\* trace_by_agent[a]: output and error of the agent's last step
TraceByAgent(trace_steps, a) ==
    LET at == {i \in 1..Len(trace_steps) : trace_steps[i].agent = a}
    IN IF at = {} THEN [output |-> None, error |-> None]
       ELSE LET last == CHOOSE i \in at : \A j \in at : j <= i
            IN [output |-> trace_steps[last].output, error |-> trace_steps[last].error]

Hashable(v) == v.type \notin {"list", "dict"}

\* _ensure_detail: the first detail of the agent, appended when there is none
EnsureDetail(details, a_name) ==
    IF \E i \in 1..Len(details) : details[i].agent = a_name THEN details
    ELSE Append(details, Detail(a_name, "warning", << >>, F(20)))

\* agent-specific min_score: a valid detail scored below it becomes a warning
MinScoreRule(d, pol) ==
    IF Get(pol, "min_score", None).type \in {"num", "bool"}
       /\ Less(d.score, ToFloat(Get(pol, "min_score", None)).f)
       /\ d.status = "valid"
    THEN [d EXCEPT !.status = "warning",
                   !.comment = Append(d.comment, "(below agent min_score)")]
    ELSE d

\* required_output_keys is checked when it is a list and the output a dict
ChecksKeys(pol, out) == Get(pol, "required_output_keys", None).type = "list" /\ IsDict(out)

\* k not in out raises TypeError on a key that cannot be hashed
KeysRaise(pol, out) ==
    /\ ChecksKeys(pol, out)
    /\ \E i \in 1..Len(Get(pol, "required_output_keys", None).val) :
          ~Hashable(Get(pol, "required_output_keys", None).val[i])

\* a missing output key: warning unless already fail, score at most 0.6
RequiredKeysRule(d, pol, out) ==
    IF /\ ChecksKeys(pol, out)
       /\ \E i \in 1..Len(Get(pol, "required_output_keys", None).val) :
             ~(Get(pol, "required_output_keys", None).val[i].type = "str"
               /\ Get(pol, "required_output_keys", None).val[i].val \in DOMAIN out.val)
    THEN [d EXCEPT !.status = IF d.status # "fail" THEN "warning" ELSE d.status,
                   !.comment = Append(d.comment, "Missing output keys"),
                   !.score = PyMin(d.score, F(60))]
    ELSE d

\* an array field shorter than its minimum: warning, score at most 0.5
MinItemsRule(d, pol, out) ==
    IF /\ IsDict(Get(pol, "min_items", None)) /\ IsDict(out)
       /\ \E field \in DOMAIN Get(pol, "min_items", None).val :
             /\ Get(pol, "min_items", None).val[field].type = "num"
             /\ Get(out, field, None).type = "list"
             /\ Len(Get(out, field, None).val) < Get(pol, "min_items", None).val[field].val
    THEN [d EXCEPT !.status = "warning",
                   !.comment = Append(d.comment, "Field has too few items"),
                   !.score = PyMin(d.score, F(50))]
    ELSE d

\* pol.get("if_error") in {...} raises TypeError on a value that cannot be hashed
ErrorRaise(pol, seen) == Truthy(seen.error) /\ ~Hashable(Get(pol, "if_error", None))

\* an error in the trace and if_error of fail or warning: the status is forced
IfErrorRule(d, pol, seen) ==
    IF /\ Truthy(seen.error)
       /\ Get(pol, "if_error", None).type = "str"
       /\ Get(pol, "if_error", None).val \in {"fail", "warning"}
    THEN [d EXCEPT !.status = Get(pol, "if_error", None).val,
                   !.comment = Append(d.comment, "(agent policy: error observed)")]
    ELSE d

\* index of the agent's first detail
DetailAt(details, a_name) ==
    CHOOSE i \in 1..Len(details) :
        details[i].agent = a_name /\ \A j \in 1..(i - 1) : details[j].agent # a_name

\* the rules applied to the detail at index at, in the order of the code;
\* what was assigned before a TypeError stays assigned
ApplyRules(details, at, pol, seen) ==
    IF KeysRaise(pol, seen.output)
    THEN [details |-> [details EXCEPT ![at] = MinScoreRule(details[at], pol)],
          raised |-> TRUE]
    ELSE IF ErrorRaise(pol, seen)
    THEN [details |-> [details EXCEPT ![at] =
                         MinItemsRule(RequiredKeysRule(MinScoreRule(details[at], pol),
                                                       pol, seen.output),
                                      pol, seen.output)],
          raised |-> TRUE]
    ELSE [details |-> [details EXCEPT ![at] =
                         IfErrorRule(MinItemsRule(RequiredKeysRule(
                                         MinScoreRule(details[at], pol), pol, seen.output),
                                         pol, seen.output),
                                     pol, seen)],
          raised |-> FALSE]

\* _apply_policy, one per-agent policy
ApplyAgentPolicy(details0, a_name, pol, trace_steps) ==
    ApplyRules(EnsureDetail(details0, a_name),
               DetailAt(EnsureDetail(details0, a_name), a_name),
               pol, TraceByAgent(trace_steps, a_name))

\* the per-agent policies in dict order, up to the first one that raises
RECURSIVE ApplyPolicies(_, _, _, _)
ApplyPolicies(details, pols, n, trace_steps) ==
    IF n = 0 THEN [details |-> details, raised |-> FALSE]
    ELSE LET prev == ApplyPolicies(details, pols, n - 1, trace_steps)
         IN IF prev.raised THEN prev
            ELSE ApplyAgentPolicy(prev.details, pols[n].name, pols[n].policy, trace_steps)

\* _apply_policy with no global policy: the per-agent policies, then the
\* global status recomputed from the details
_apply_policy(audit, trace_steps, pols) ==
    LET applied == ApplyPolicies(audit.details, pols, Len(pols), trace_steps)
    IN Audit(applied.raised,
             IF applied.raised THEN audit.status ELSE StatusFrom(applied.details),
             applied.details)

\* audit_trace_with_mistral after the call: parse, then the policies applied
\* fail-soft (a policy that crashes keeps what the audit holds by then)
AuditOf(reply, trace_steps, pols) ==
    LET parsed == _parse_and_coerce_audit_json(reply)
        applied == _apply_policy(parsed, trace_steps, pols)
    IN IF parsed.raised THEN parsed
       ELSE Audit(FALSE, applied.status, applied.details)

PolicyCrashed(reply, trace_steps, pols) ==
    /\ ~_parse_and_coerce_audit_json(reply).raised
    /\ _apply_policy(_parse_and_coerce_audit_json(reply), trace_steps, pols).raised

\* a summary: its text, with the two counts of a generated one
Summary(text, ok, total) == [text |-> text, ok |-> ok, total |-> total]

\* audit["summary"]: str(parsed.get("summary", "")), or "ok/total agents
\* validated" counted on the coerced details when that is empty
AuditSummary(reply) ==
    LET given == PyStr(Get(reply.val, "summary", Str("")))
        details == _parse_and_coerce_audit_json(reply).details
    IN IF given # "" THEN Summary(given, 0, 0)
       ELSE Summary("agents validated",
                    Cardinality({i \in 1..Len(details) : details[i].status = "valid"}),
                    Len(details))

\* variant: the comment of a detail goes out as the audit holds it
AuditFeedback_Raw(d) == d

\* AuditFeedback(...): the comment stripped, "No comment." when nothing is left
AuditFeedback(d) ==
    [d EXCEPT !.comment = IF d.comment = << >> THEN <<"No comment.">> ELSE d.comment]

\* run_audit, step 4: the audit mapped to the response model
AuditResult(audit, summary) ==
    [status |-> audit.status,
     summary |-> IF summary.text = "" THEN Summary("LLM audit completed.", 0, 0)
                 ELSE summary,
     details |-> IF Len(audit.details) = 0
                 THEN <<Detail("unknown", "warning", <<"No details from LLM.">>, F(20))>>
                 ELSE [i \in 1..Len(audit.details) |-> AuditFeedback(audit.details[i])]]

\* details an LLM can put in its answer
AuditItems ==
    [ valid |-> Dict([agent |-> Str("A"), status |-> Str("Valid"), comment |-> Str("fine"),
                      score |-> Num(90)]),
      failing |-> Dict([agent |-> Str("A"), status |-> Str("FAIL"), score |-> Num(150)]),
      bogus |-> Dict([agent |-> Str("B"), status |-> Str("bogus"), score |-> Str("high")]),
      negative |-> Dict([agent |-> Str("B"), status |-> Str("valid"), comment |-> Str("  "),
                         score |-> Num(-100)]),
      nan |-> Dict([status |-> Str("valid"), score |-> Str("nan")]),
      bare |-> Dict([agent |-> Str("B"), status |-> Str("valid"), comment |-> None]),
      text |-> Str("x") ]

DetailLists ==
    { << >>, <<AuditItems.valid>>, <<AuditItems.failing>>,
      <<AuditItems.valid, AuditItems.bogus>>, <<AuditItems.valid, AuditItems.negative>>,
      <<AuditItems.nan>>, <<AuditItems.valid, AuditItems.bare>>, <<AuditItems.text>> }

\* what the Mistral call produces: a failure, text that is not JSON, JSON
AuditReplies ==
    { [kind |-> "error", val |-> None], [kind |-> "text", val |-> None],
      [kind |-> "json", val |-> List(<< >>)],
      [kind |-> "json", val |-> Dict(<< >>)],
      [kind |-> "json", val |-> Dict([status |-> Str("ok"), summary |-> Str(""),
                                     details |-> Str("n/a")])],
      [kind |-> "wrapped", val |-> Dict([status |-> Str("OK"), summary |-> Str("done"),
                                        details |-> List(<<AuditItems.valid>>)])] }
    \cup {[kind |-> "json", val |-> Dict([details |-> List(dl)])] : dl \in DetailLists}
    \cup {[kind |-> "json", val |-> Dict([status |-> Str(st), details |-> List(dl)])] :
            st \in {"ok", "FAIL", "bogus"}, dl \in DetailLists}

\* isinstance(v, (int, float, str, bool))
Scalar(v) == v.type \in {"num", "str", "bool"}

\* a member the prompt keeps: a scalar, a list of at most ten items, an object
Kept(v) == Scalar(v) \/ (v.type = "list" /\ Len(v.val) <= 10) \/ v.type = "dict"

\* what is kept of it: the scalar items of a list, the scalar members of an object
CompactValue(v) ==
    CASE v.type = "list" -> List(SelectSeq(v.val, Scalar))
      [] v.type = "dict" ->
           Dict([sk \in {k \in DOMAIN v.val : Scalar(v.val[k])} |-> v.val[sk]])
      [] OTHER -> v

CompactPolicy(pol) ==
    Dict([k \in {m \in DOMAIN pol.val : Kept(pol.val[m])} |-> CompactValue(pol.val[k])])

NonEmptyPolicy(p) == DOMAIN p.policy.val # {}

\* the per-agent policies as the user prompt carries them: the compact view of
\* each, a policy whose compact view is empty left out
_summarize_policies_for_prompt(pols) ==
    SelectSeq([i \in 1..Len(pols) |->
                  [name |-> pols[i].name, policy |-> CompactPolicy(pols[i].policy)]],
              NonEmptyPolicy)

\* waterdrops_used = 6.0 + 0.5 * steps, in hundredths
AuditWater(n) == 600 + 50 * n

\* run_audit from the LLM call to the response
AuditWithLLM ==
    /\ audit_pc = "Discover"
    /\ pidx > Len(steps_payload)
    /\ audit_pc' = "Done"
    /\ IF Len(steps_payload) = 0
       THEN /\ audit_response' = AuditError(500, "LLM audit failed", "")
            /\ UNCHANGED <<llm_input, llm_reply, water>>
       ELSE \E reply \in AuditReplies, mood_ok \in BOOLEAN, disk_ok \in BOOLEAN :
              LET audit == AuditOf(reply, steps_payload, policies)
              IN /\ llm_input' = [called |-> TRUE, steps |-> steps_payload,
                                  policies |-> policies,
                                  prompt |-> _summarize_policies_for_prompt(policies)]
                 /\ llm_reply' = reply
                 /\ IF audit.raised
                    THEN /\ audit_response' = AuditError(500, "LLM audit failed", "")
                         /\ UNCHANGED water
                    ELSE IF ~mood_ok
                    THEN /\ audit_response' = AuditError(500, "Internal Server Error", "")
                         /\ UNCHANGED water
                    ELSE /\ audit_response' =
                              [status |-> 200, detail |-> "", agent |-> "",
                               body |-> AuditResult(audit, AuditSummary(reply))]
                         /\ water' = [mem |-> water.mem + AuditWater(Len(steps_payload)),
                                      file |-> IF disk_ok
                                               THEN water.mem + AuditWater(Len(steps_payload))
                                               ELSE water.file]
    /\ UNCHANGED <<steps_payload, api_key, pidx, policies, policy_gets, auditFrame>>

InitAuditor ==
    /\ InitIdle
    /\ steps_payload \in Traces
    /\ api_key \in BOOLEAN
    /\ audit_pc = "Idle"
    /\ pidx = 0
    /\ policies = << >>
    /\ policy_gets = << >>
    /\ llm_input = NoLLMCall
    /\ llm_reply = NoAuditReply
    /\ audit_response = NoAuditResponse
    /\ manifest_check = NoManifest

NextAuditor ==
    \/ ReceiveTrace
    \/ DiscoverPolicy
    \/ AuditWithLLM

SpecAuditor == InitAuditor /\ [][NextAuditor]_vars

\* ------------------------------ orchestrator process and its GET endpoints
\* main.py is imported (the credentials are read first), then requests are
\* served.  The answer of a GET endpoint is recorded in reads.

serviceFrame == <<agents_registry, requestVars, meterVars, auditVars>>

\* main.py start-up: a missing license_keys.json raises RuntimeError
StartOrchestrator ==
    /\ pc = "Start"
    /\ pc' = IF license_file = "absent" THEN "Crashed" ELSE "Idle"
    /\ UNCHANGED <<agents_registry, registryVars, meterVars, auditVars, water, registration,
                   registry_at_start, request, plannerVars, executorVars, exc, response,
                   license_file, manifest_check>>

\* the running process takes the GET request for an endpoint
Serving(endpoint) == pc = "Idle" /\ request.endpoint = endpoint

\* the GET requests of the read-only endpoints
ReadRequests ==
    {[endpoint |-> e, goal |-> "", plan |-> << >>] :
        e \in {"/health", "/agents", "/agent_manifest", "/agents/metrics", "/water/total"}}

\* GET /health
health ==
    /\ Serving("/health")
    /\ reads = NoRead
    /\ reads' = [op |-> "health", name |-> "", status |-> 200,
                 body |-> [i \in 1..Len(agents_registry) |-> agents_registry[i].name]]
    /\ UNCHANGED <<agents_file, registry_states, writers, water, serviceFrame>>

\* what GET <base_url>/metrics gives: a failure (timeout, HTTP status, body
\* that is not JSON), or a JSON body
MetricsAnswers ==
    { [kind |-> "error", val |-> None],
      [kind |-> "json", val |-> Dict([aiwaterdrops_consumed |-> Num(500)])],
      [kind |-> "json", val |-> Dict(<< >>)],
      [kind |-> "json", val |-> Dict([aiwaterdrops_consumed |-> Str("5")])],
      [kind |-> "json", val |-> List(<< >>)] }

\* d[name] = value on a dict kept as a sequence of entries
Put(d, name, value) ==
    IF HasKey(d, name)
    THEN [i \in 1..Len(d) |-> IF d[i].name = name THEN [name |-> name, value |-> value]
                              ELSE d[i]]
    ELSE Append(d, [name |-> name, value |-> value])

\* GET /agents/metrics
aggregate_agent_metrics ==
    /\ Serving("/agents/metrics")
    /\ reads = NoRead
    /\ \E answers \in [1..Len(agents_registry) -> MetricsAnswers] :
        LET collected[k \in 0..Len(agents_registry)] ==
                IF k = 0 THEN << >>
                ELSE Put(collected[k - 1], agents_registry[k].name,
                         IF answers[k].kind = "json" THEN answers[k].val
                         ELSE Dict([error |-> Str("Failed to fetch metrics")]))
        IN reads' = [op |-> "aggregate_agent_metrics", name |-> "", status |-> 200,
                     body |-> collected[Len(agents_registry)]]
    /\ UNCHANGED <<agents_file, registry_states, writers, water, serviceFrame>>

\* agent_data.get("aiwaterdrops_consumed", 0.0)
Usage(answer) == Get(answer.val, "aiwaterdrops_consumed", Num(0))

\* the try block of get_total_water_usage runs to its end: the call succeeds,
\* the body is an object and "total += usage" adds a number
Counted(answer) ==
    /\ answer.kind = "json"
    /\ IsDict(answer.val)
    /\ Usage(answer).type \in {"num", "bool"}

\* GET /water/total; round(total, 3) leaves a value in hundredths as it is
get_total_water_usage ==
    /\ Serving("/water/total")
    /\ reads = NoRead
    /\ \E answers \in [1..Len(agents_registry) -> MetricsAnswers] :
        LET breakdown[k \in 0..Len(agents_registry)] ==
                IF k = 0 THEN <<[name |-> "orchestrator", value |-> Num(water.mem)]>>
                ELSE Put(breakdown[k - 1], agents_registry[k].name,
                         IF Counted(answers[k]) THEN Usage(answers[k])
                         ELSE Str("error"))
            total[k \in 0..Len(agents_registry)] ==
                IF k = 0 THEN water.mem
                ELSE IF Counted(answers[k]) THEN total[k - 1] + ToFloat(Usage(answers[k])).f.v
                ELSE total[k - 1]
        IN reads' = [op |-> "get_total_water_usage", name |-> "", status |-> 200,
                     body |-> <<[breakdown |-> breakdown[Len(agents_registry)],
                                 total_waterdrops |-> total[Len(agents_registry)]]>>]
    /\ UNCHANGED <<agents_file, registry_states, writers, water, serviceFrame>>

\* GET /agents and GET /agent_manifest/{agent_name} of a running process
ServeAgents == Serving("/agents") /\ list_agents
ServeManifest == Serving("/agent_manifest") /\ get_agent_manifest

\* the process before main.py is imported, and the request it will be sent
InitService ==
    /\ agents_registry \in {RegSeed, RegNamed, RegEmpty}
    /\ request \in {r \in Requests : r.endpoint = "/plan"} \cup ReadRequests
    /\ pc = "Start"
    /\ license_file \in {"absent", "no_key", "key"}
    /\ catalog = << >>
    /\ gate_reply = NoReply
    /\ raw = << >>
    /\ steps = << >>
    /\ cleaned = << >>
    /\ vst = EmptyRepair
    /\ vidx = 0
    /\ audit_appended = FALSE
    /\ llm_calls = << >>
    /\ plan = << >>
    /\ line = 0
    /\ results = << >>
    /\ origin = << >>
    /\ context = None
    /\ business_context = None
    /\ pending = NoPending
    /\ posts = << >>
    /\ water_start \in {0, PlanWater}
    /\ water = [mem |-> water_start, file |-> water_start]
    /\ exc = NoExc
    /\ response = NoResponse
    /\ registration = NoRegistration
    /\ registry_at_start = << >>
    /\ writers = [w \in Writers |-> IdleWriter]
    /\ agents_file = Serialize(agents_registry)
    /\ registry_states = {agents_registry}
    /\ reads = NoRead
    /\ loaded = TRUE
    /\ meters = [t \in Meters |-> IdleMeter]
    /\ observed = << >>
    /\ steps_payload = << >>
    /\ api_key = TRUE
    /\ audit_pc = "Idle"
    /\ pidx = 0
    /\ policies = << >>
    /\ policy_gets = << >>
    /\ llm_input = NoLLMCall
    /\ llm_reply = NoAuditReply
    /\ audit_response = NoAuditResponse
    /\ manifest_check = NoManifest

NextService ==
    \/ StartOrchestrator
    \/ health
    \/ ServeAgents
    \/ ServeManifest
    \/ aggregate_agent_metrics
    \/ get_total_water_usage
    \/ ReceiveGoal
    \/ CollectCatalog
    \/ FeasibilityGate
    \/ Generate
    \/ Parse
    \/ ValidateClean
    \/ ValidateRepairStep
    \/ ValidateFinish
    \/ Emit
    \/ Reject

SpecService == InitService /\ [][NextService]_vars

\* ------------------------------------------- manifest normalization
\* register_agent turns manifest["capabilities"] into a list of objects.
\* The raw value is any JSON; a JSON object is kept as its members in order.

MaxCaps == 2

Mapping(pairs) == [type |-> "mapping", val |-> pairs]

\* items of a capabilities list on the wire
CapItems ==
    { Str("do"), Str("work"), Str(""),
      Dict([name |-> Str("do"), description |-> Str("does")]),
      Dict([capability |-> Str("work")]),
      Dict([id |-> Str("do"), custom_input_handler |-> Str("use_execution_trace")]),
      Dict([name |-> Str(""), description |-> Str("d")]),
      Dict([description |-> Str("d")]),
      Num(7) }

\* members of a capabilities mapping on the wire
CapPairs == {[key |-> k, value |-> v] : k \in {"do", "work", ""}, v \in {Str("does"), None}}

\* the raw capabilities: the three accepted forms, and values of no form
RawCapabilities ==
    {List(q) : q \in Texts(CapItems, MaxCaps)}
    \cup {Mapping(q) : q \in {m \in Texts(CapPairs, MaxCaps) :
                                \A i, j \in 1..Len(m) : m[i].key = m[j].key => i = j}}
    \cup {Str("do"), None}

\* one item of a list: a string, an object with a truthy name, anything else
NormalizeItem(cap) ==
    CASE cap.type = "str" -> <<Dict([name |-> cap, description |-> Str("")])>>
      [] cap.type = "dict" ->
           IF ~Truthy(WireName(cap)) THEN << >>
           ELSE IF Truthy(Get(cap, "custom_input_handler", None))
           THEN <<Dict([name |-> WireName(cap),
                        description |-> Get(cap, "description", Str("")),
                        custom_input_handler |-> Get(cap, "custom_input_handler", None)])>>
           ELSE <<Dict([name |-> WireName(cap),
                        description |-> Get(cap, "description", Str(""))])>>
      [] OTHER -> << >>

\* normalized_caps computed from raw_caps
normalize(raw_caps) ==
    IF raw_caps.type = "list"
    THEN LET items[k \in 0..Len(raw_caps.val)] ==
                 IF k = 0 THEN << >>
                 ELSE items[k - 1] \o NormalizeItem(raw_caps.val[k])
         IN List(items[Len(raw_caps.val)])
    ELSE IF raw_caps.type = "mapping"
    THEN List([k \in 1..Len(raw_caps.val) |->
                  Dict([name |-> Str(raw_caps.val[k].key),
                        description |-> IF raw_caps.val[k].value = None THEN Str("")
                                        ELSE Str(PyStr(raw_caps.val[k].value))])])
    ELSE List(<< >>)

normalizeFrame == <<agents_registry, registryVars, meterVars, auditVars, water, registration,
                    registry_at_start, request, pc, plannerVars, executorVars, exc,
                    response, license_file>>

\* register_agent normalizes the capabilities of the manifest it fetched
NormalizeManifest ==
    /\ manifest_check.pc = "Raw"
    /\ manifest_check' = [manifest_check EXCEPT !.pc = "Once",
                                                !.once = normalize(manifest_check.raw)]
    /\ UNCHANGED normalizeFrame

\* the normalized capabilities are normalized again (the agent is registered
\* with the manifest the orchestrator stored)
NormalizeAgain ==
    /\ manifest_check.pc = "Once"
    /\ manifest_check' = [manifest_check EXCEPT !.pc = "Twice",
                                                !.twice = normalize(manifest_check.once)]
    /\ UNCHANGED normalizeFrame

InitNormalize ==
    /\ InitIdle
    /\ steps_payload = << >>
    /\ api_key = TRUE
    /\ audit_pc = "Idle"
    /\ pidx = 0
    /\ policies = << >>
    /\ policy_gets = << >>
    /\ llm_input = NoLLMCall
    /\ llm_reply = NoAuditReply
    /\ audit_response = NoAuditResponse
    /\ manifest_check \in {[pc |-> "Raw", raw |-> r, once |-> None, twice |-> None] :
                             r \in RawCapabilities}

NextNormalize ==
    \/ NormalizeManifest
    \/ NormalizeAgain

SpecNormalize == InitNormalize /\ [][NextNormalize]_vars

TypeOK ==
    /\ pc \in {"Start", "Crashed", "Idle", "CollectCatalog", "FeasibilityGate", "Generate", "Parse",
               "ValidateRepair", "Emit", "Reject", "Loop", "Posting", "Finish", "Done"}
    /\ Len(origin) = Len(results)

\* ================================================================ claims
\* vocabulary of the properties, stated on the recorded history
Registered(registry, a, c) ==
    \E i \in 1..Len(registry) :
        /\ registry[i].name = a
        /\ \E j \in 1..Len(registry[i].manifest.capabilities) :
              registry[i].manifest.capabilities[j].name = c

\* a trace entry of a dispatched step whose POST failed
FailedEntry(r) ==
    /\ "output" \in DOMAIN r
    /\ r.output = None
    /\ r.error # None

HasError(r) == "error" \in DOMAIN r /\ r.error # None

PostFailed(p) == p.status \in PostFailures

Increasing(q) == \A i \in 1..Len(q) : \A j \in 1..Len(q) : i < j => q[i] < q[j]

\* C1: when the POST to /execute fails at some step, an entry with
\* output = null and a non-null error is recorded for that step, and it stays
\* the last entry of the trace: no later plan line is dispatched or recorded.
C1_HaltOnPostFailure ==
    \A i \in 1..Len(posts) :
        PostFailed(posts[i]) =>
            /\ i = Len(posts)
            /\ pc \in {"Finish", "Done"}
            /\ Len(results) > 0
            /\ FailedEntry(results[Len(results)])
            /\ results[Len(results)].error = Str(posts[i].status)
            /\ origin[Len(origin)] = posts[i].line

\* a POST failed after an earlier step succeeded and plan lines remain
C1_Witness ==
    /\ pc = "Done"
    /\ Len(posts) >= 2
    /\ PostFailed(posts[Len(posts)])
    /\ posts[Len(posts)].line < Len(plan)

\* C2 as stated: at most one entry per plan line, entries in plan order, and
\* no entry follows an entry whose error is not null.
C2_Original ==
    /\ Len(results) <= Len(plan)
    /\ Increasing(origin)
    /\ \A i \in 1..Len(results) : HasError(results[i]) => i = Len(results)

\* C2 amended: at most one entry per plan line, entries in plan order, and
\* no entry follows the entry of a failed dispatch (output = null with
\* error # null); the entries of unparsable lines and of unregistered agents
\* carry an error too and do not end the execution.
C2_TraceShape ==
    /\ Len(results) <= Len(plan)
    /\ Increasing(origin)
    /\ \A i \in 1..Len(origin) : origin[i] \in 1..Len(plan)
    /\ \A i \in 1..Len(results) : FailedEntry(results[i]) => i = Len(results)

\* an unparsable line was recorded, execution went on and a later POST failed
C2_Witness ==
    /\ pc = "Done"
    /\ Len(results) >= 3
    /\ HasError(results[1]) /\ ~FailedEntry(results[1])
    /\ FailedEntry(results[Len(results)])

\* C3: the POST of a step is issued only after every earlier POST of the plan
\* returned successfully; at most one POST is outstanding; POSTs and the
\* entries they produce follow plan order.
C3_SequentialDispatch ==
    /\ \A i \in 1..(Len(posts) - 1) :
          posts[i].status = "ok" /\ posts[i].line < posts[i + 1].line
    /\ Cardinality({i \in 1..Len(posts) : posts[i].status = "pending"}) <= 1
    /\ (pc = "Posting") <=> (Len(posts) > 0 /\ posts[Len(posts)].status = "pending")
    /\ Increasing(origin)

\* a third POST is outstanding after two earlier ones returned
C3_Witness ==
    /\ pc = "Posting"
    /\ Len(posts) = 3

\* C4: every step of the validated step list and every line of the plan the
\* Planner hands over names a registered agent and a capability of its
\* manifest (substituted steps and the appended audit step included).
C4_PlanInRegistry ==
    /\ pc = "Emit" =>
          \A i \in 1..Len(steps) : Registered(agents_registry, steps[i][1], steps[i][2])
    /\ (request.endpoint # "/execute_plan" /\ pc \in {"Loop", "Posting", "Finish", "Done"}) =>
          \A i \in 1..Len(plan) : Registered(agents_registry, plan[i].agent, plan[i].cap)

\* a plan with a substituted step and an appended audit step was handed over
C4_Witness ==
    /\ pc = "Loop"
    /\ request.endpoint = "/run_goal"
    /\ audit_appended
    /\ \E i \in 1..Len(vst.repaired) : ~InSeq(vst.repaired[i], cleaned)
    /\ Len(plan) = Len(steps)

\* a step is an audit step when its capability is one the detection accepts
IsAuditStep(cat, s) ==
    \E i \in 1..Len(cat) :
        /\ cat[i].name = s[1]
        /\ InSeq(s[2], cat[i].capabilities)
        /\ \/ s[2] = "audit_trace"
           \/ \E j \in 1..Len(cat[i].capability_meta) :
                 /\ cat[i].capability_meta[j].name = s[2]
                 /\ cat[i].capability_meta[j].custom_input_handler = Str("use_execution_trace")
           \/ Contains(Lower(Chars(s[2])), Chars("audit"))

HasAuditCapability(cat) ==
    \E i \in 1..Len(cat) : \E j \in 1..Len(cat[i].capabilities) :
        IsAuditStep(cat, <<cat[i].name, cat[i].capabilities[j]>>)

\* C5 as stated: with an audit capability in the catalog, an accepted plan
\* holds exactly one audit step and it is the last step.
C5_Original ==
    (pc = "Emit" /\ HasAuditCapability(catalog)) =>
        /\ Cardinality({i \in 1..Len(steps) : IsAuditStep(catalog, steps[i])}) = 1
        /\ IsAuditStep(catalog, steps[Len(steps)])

\* a spec is present when it is a non-empty object
Present(spec) == spec.type = "dict" /\ DOMAIN spec.val # {}
TypeOf(spec) == IF "type" \in DOMAIN spec.val THEN spec.val["type"] ELSE None

\* both specs are present and their top-level types agree
TypeMatch(out_spec, in_spec) ==
    /\ Present(out_spec)
    /\ Present(in_spec)
    /\ TypeOf(out_spec) = TypeOf(in_spec)

OutSpecOf(cat, a) == cat[CHOOSE i \in 1..Len(cat) : cat[i].name = a].output_spec
InSpecOf(cat, a) == cat[CHOOSE i \in 1..Len(cat) : cat[i].name = a].input_spec

DeclaresSpec(cat) ==
    \E i \in 1..Len(cat) : Present(cat[i].input_spec) \/ Present(cat[i].output_spec)

\* C6 as stated: every consecutive pair of an emitted plan is compatible,
\* the appended terminal audit step included.
C6_Original ==
    (pc = "Emit" /\ DeclaresSpec(catalog)) =>
        \A i \in 1..(Len(steps) - 1) :
            TypeMatch(OutSpecOf(catalog, steps[i][1]), InSpecOf(catalog, steps[i + 1][1]))

\* C6 amended: when some agent declares a non-empty spec, every consecutive
\* pair (p, q) of the step list returned by _validate_and_repair_plan has both
\* specs present with equal type, except that the terminal audit step the
\* validator appends is appended without a compatibility check.
C6_ChainCompatible ==
    (pc = "Emit" /\ DeclaresSpec(catalog)) =>
        \A i \in 1..(Len(steps) - 1) :
            \/ TypeMatch(OutSpecOf(catalog, steps[i][1]), InSpecOf(catalog, steps[i + 1][1]))
            \/ (audit_appended /\ i + 1 = Len(steps))

\* a chain of three compatible steps, the second put there by substitution
C6_Witness ==
    /\ pc = "Emit"
    /\ DeclaresSpec(catalog)
    /\ Len(vst.repaired) >= 3
    /\ \E i \in 1..Len(vst.repaired) : ~InSeq(vst.repaired[i], cleaned)

\* the repair loop is about to process a step at index >= 1 whose input
\* spec does not match the output spec of the previously kept step
IncompatibleStep ==
    /\ pc = "ValidateRepair"
    /\ vidx \in 2..Len(cleaned)
    /\ ~TypeMatch(vst.prev_out_spec, InSpecOf(catalog, cleaned[vidx][1]))

\* other agents advertising the step's capability with a compatible input
Alternatives ==
    {i \in 1..Len(catalog) :
        /\ catalog[i].name # cleaned[vidx][1]
        /\ InSeq(cleaned[vidx][2], catalog[i].capabilities)
        /\ TypeMatch(vst.prev_out_spec, catalog[i].input_spec)}

\* ... that are not yet in the repaired list with that capability
FreshAlternatives ==
    {i \in Alternatives : ~InSeq(<<catalog[i].name, cleaned[vidx][2]>>, vst.repaired)}

\* C7 as stated: an incompatible step is replaced by one (other agent, same
\* capability) step whenever some other agent advertises the capability with
\* a compatible input, and dropped otherwise.
C7_Original ==
    [][IncompatibleStep =>
          IF Alternatives # {}
          THEN \E i \in Alternatives :
                  /\ vst'.repaired = Append(vst.repaired, <<catalog[i].name, cleaned[vidx][2]>>)
                  /\ vst'.prev_out_spec = catalog[i].output_spec
          ELSE vst' = vst]_vars

\* C7 amended: the step is replaced by the first agent in catalog order that
\* is another agent, advertises the capability, has a compatible input_spec
\* and is not already in the repaired list with that capability; the chain
\* continues from that agent's output_spec.  When there is no such agent the
\* step is dropped and the previous output_spec is unchanged.
C7_SubstituteOrDrop ==
    [][IncompatibleStep =>
          IF FreshAlternatives # {}
          THEN LET i == CHOOSE k \in FreshAlternatives : \A m \in FreshAlternatives : k <= m
               IN /\ vst'.repaired = Append(vst.repaired, <<catalog[i].name, cleaned[vidx][2]>>)
                  /\ vst'.prev_out_spec = catalog[i].output_spec
          ELSE vst' = vst]_vars

\* the seed case: A(out x), B(in y), C(in x); "A do; B work" gives "A do; C work"
C7_Witness ==
    /\ agents_registry = RegSeed
    /\ cleaned = << <<"A", "do">>, <<"B", "work">> >>
    /\ vidx = 3
    /\ vst.repaired = << <<"A", "do">>, <<"C", "work">> >>
    /\ vst.prev_out_spec = TypeSpec("z")

GoalEndpoint == request.endpoint \in {"/plan", "/run_goal"}

\* C8 as stated: when the feasibility gate answers feasible = false, /plan
\* and /run_goal respond with HTTP 422.
C8_Stated ==
    (/\ pc = "Done"
     /\ GoalEndpoint
     /\ gate_reply = GateJson(Dict([feasible |-> Bool(FALSE)])))
    => response.status = 422

\* C9 as stated: when the planning LLM answers "UNSUPPORTED | <reason>",
\* /plan and /run_goal respond with HTTP 422 and the reason in the detail.
C9_Stated ==
    (/\ pc = "Done"
     /\ GoalEndpoint
     /\ raw = <<UnsupportedLine>>)
    => (response.status = 422 /\ response.detail = "Unsupported goal")

PlannerStates == {"CollectCatalog", "FeasibilityGate", "Generate", "Parse",
                  "ValidateRepair", "Emit"}

\* the state each planner state is entered from
EnteredFrom(state) ==
    CASE state = "CollectCatalog" -> {"Idle"}
      [] state = "FeasibilityGate" -> {"CollectCatalog"}
      [] state = "Generate" -> {"FeasibilityGate"}
      [] state = "Parse" -> {"Generate"}
      [] state = "ValidateRepair" -> {"Parse"}
      [] state = "Emit" -> {"ValidateRepair"}

LineOf(i) == plan[origin[i]]
PostLine(k) == plan[posts[k].line]

Unrecognised(r) == EntryGet(r, "error") = Str("Unrecognized format")

\* C11 as stated: the Executor records 'Unrecognized format' for a line
\* exactly when the Planner's pattern rejects the line, and otherwise extracts
\* the (agent, capability) pair the Planner extracts; no plan text emitted by
\* the Planner produces an 'Unrecognized format' entry.
C11_Stated ==
    /\ \A i \in 1..Len(results) :
          /\ Unrecognised(results[i]) <=> ~PlannerPattern(LineOf(i))
          /\ "agent" \in DOMAIN results[i] =>
                /\ results[i].agent = LineOf(i).agent
                /\ results[i].capability = LineOf(i).cap
    /\ request.endpoint # "/execute_plan" =>
          \A i \in 1..Len(results) : ~Unrecognised(results[i])

\* both names of a step are in the Planner's character class [A-Za-z0-9_\-]
InPlannerClass(s) ==
    /\ MatchesClass(s[1], WordChars \cup {"-"})
    /\ MatchesClass(s[2], WordChars \cup {"-"})

\* text.replace("->", "→") on every line
NormalizeText(text) == [i \in 1..Len(text) |-> NormalizeArrow(text[i])]

Succeeded(r) == "output" \in DOMAIN r /\ r.error = None

\* the output of the most recent successfully executed step before plan
\* line l, null when there is none
LastOutputBefore(l) ==
    LET S == {j \in 1..Len(results) : origin[j] < l /\ Succeeded(results[j])}
    IN IF S = {} THEN None
       ELSE results[CHOOSE j \in S : \A k \in S : k <= j].output

\* the payload input the specification describes for a context
StatedInput(ctx) ==
    IF ctx = None THEN Dict(<< >>)
    ELSE IF IsDict(ctx)
         THEN Dict([k \in DOMAIN ctx.val \ {"waterdrops_used"} |-> ctx.val[k]])
         ELSE Dict([_value |-> ctx])

\* the POST k is for a capability with custom_input_handler use_execution_trace
MetaPost(k) ==
    IsMeta(CustomHandler(agents_registry, PostLine(k).agent, posts[k].capability))

\* C13 as stated: the input of every non-meta POST is the last successful
\* output without waterdrops_used, wrapped as {"_value": ctx} when it is not
\* an object, and {} when there is no previous output.
C13_Stated ==
    \A k \in 1..Len(posts) :
        ~MetaPost(k) => posts[k].input = StatedInput(LastOutputBefore(posts[k].line))

\* C14 as stated: input_used of the entry of a dispatched step is the value
\* that was sent as "input" in the POST of that step.
C14_Stated ==
    \A i \in 1..Len(results) :
        "input_used" \in DOMAIN results[i] =>
            \E k \in 1..Len(posts) :
                /\ posts[k].line = origin[i]
                /\ results[i].input_used = posts[k].input

\* C15 as stated: the input of every successful POST carries _agent_base_url
\* equal to the agent's base_url, and so does every recorded object output.
C15_Stated ==
    /\ \A k \in 1..Len(posts) :
          posts[k].status = "ok" =>
              /\ IsDict(posts[k].input)
              /\ Get(posts[k].input, "_agent_base_url", None) = Str(posts[k].url)
    /\ \A i \in 1..Len(results) :
          (Succeeded(results[i]) /\ IsDict(results[i].output)) =>
              "_agent_base_url" \in DOMAIN results[i].output.val

\* number of trace entries recorded before plan line l
PriorCount(l) == Cardinality({j \in 1..Len(results) : origin[j] < l})

\* {agent, input, output, error} of one trace entry
ProjectionOf(r) ==
    Dict([agent |-> IF "agent" \in DOMAIN r THEN Str(r.agent) ELSE None,
          input |-> IF "input_used" \in DOMAIN r THEN r.input_used ELSE None,
          output |-> IF "output" \in DOMAIN r THEN r.output ELSE None,
          error |-> IF "error" \in DOMAIN r THEN r.error ELSE None])

NamesAgent(r) == "agent" \in DOMAIN r

\* C16 as stated: the input of a use_execution_trace step is {steps: [...]}
\* with one projection for each prior trace entry, in trace order.
C16_Original ==
    \A k \in 1..Len(posts) :
        MetaPost(k) =>
            posts[k].input =
                Dict([steps |-> List([j \in 1..PriorCount(posts[k].line) |->
                                         ProjectionOf(results[j])])])

\* C16 amended: the input of a use_execution_trace step is {steps: [...]}
\* with, in trace order, one {agent, input, output, error} projection for each
\* prior trace entry that names an agent (dispatched steps and skipped
\* steps); entries of unparsable lines and of unregistered agents are left
\* out; input is the entry's input_used and output its output, null where the
\* entry has no such field.
C16_TraceProjection ==
    \A k \in 1..Len(posts) :
        MetaPost(k) =>
            LET prior == SubSeq(results, 1, PriorCount(posts[k].line))
                named == SelectSeq(prior, NamesAgent)
            IN posts[k].input =
                   Dict([steps |-> List([j \in 1..Len(named) |-> ProjectionOf(named[j])])])

\* a use_execution_trace step was posted after an entry without agent and an
\* entry of a dispatched step
C16_Witness ==
    \E k \in 1..Len(posts) :
        /\ MetaPost(k)
        /\ PriorCount(posts[k].line) = 2
        /\ \E j \in 1..2 : ~NamesAgent(results[j])
        /\ \E j \in 1..2 : Succeeded(results[j])
        /\ Len(posts[k].input.val.steps.val) = 1

Returned == pc = "Done" /\ response.status = 200 /\ Len(plan) > 0

SuccessfulSteps == {j \in 1..Len(results) : Succeeded(results[j])}

NonMetaSteps ==
    {j \in SuccessfulSteps :
        ~IsMeta(CustomHandler(agents_registry, results[j].agent, results[j].capability))}

\* output of the last entry among S, null when S is empty
LastOutput(S) ==
    IF S = {} THEN None ELSE results[CHOOSE j \in S : \A k \in S : k <= j].output

\* C17 as stated: final_output is the output of the last successful non-meta
\* step when one exists, otherwise the output of the last successful step.
C17_Original ==
    Returned =>
        response.body.final_output =
            IF NonMetaSteps # {} THEN LastOutput(NonMetaSteps)
            ELSE LastOutput(SuccessfulSteps)

\* C17 amended: final_output is the output of the last successful non-meta
\* step when one exists and that output is not JSON null; otherwise it is the
\* output of the last successful step of any kind (null if none).  A meta
\* step changes final_output only in that second case.
C17_FinalOutput ==
    Returned =>
        response.body.final_output =
            IF LastOutput(NonMetaSteps) # None THEN LastOutput(NonMetaSteps)
            ELSE LastOutput(SuccessfulSteps)

\* a non-meta step, then a meta step with another output: the first is final
C17_Witness ==
    /\ Returned
    /\ \E j \in NonMetaSteps : \E k \in SuccessfulSteps \ NonMetaSteps :
          /\ j < k
          /\ results[j].output # None
          /\ results[k].output # results[j].output
          /\ response.body.final_output = results[j].output

LastPostFailed == Len(posts) > 0 /\ PostFailed(posts[Len(posts)])

\* C18 as stated: whatever the agents do, execute_plan_string returns the
\* trace with every entry up to and including the failing step and no
\* exception propagates.
C18_Original ==
    (pc = "Done" /\ LastPostFailed) =>
        /\ response.status = 200
        /\ response.body.trace = results
        /\ Len(results) > 0
        /\ FailedEntry(results[Len(results)])

\* C18, the part that holds: no failure of a called agent (unreachable,
\* non-2xx, non-JSON body) propagates out of the loop: it is recorded in the
\* trace and the loop ends; the trace is returned whenever the increment of
\* the water counter after the loop returns, and the only exception that can
\* leave execute_plan_string is the one of that increment.
C18_AgentErrorsContained ==
    /\ pc \in {"Loop", "Posting", "Finish"} => exc = NoExc
    /\ (pc = "Done" /\ LastPostFailed) =>
          /\ Len(results) > 0
          /\ FailedEntry(results[Len(results)])
          /\ exc.class \notin PostFailures
          /\ IF water.file = water.mem
             THEN /\ exc = NoExc
                  /\ response.status = 200
                  /\ response.body.trace = results
             ELSE /\ exc.class = "OSError"
                  /\ response.status = 500

KnownAgent(a) == \E i \in 1..Len(agents_registry) : agents_registry[i].name = a

\* the loop is at a line that is not blank, not a comment, and cannot be
\* dispatched
UndispatchableLine ==
    /\ pc = "Loop"
    /\ line \in 1..Len(plan)
    /\ plan[line].kind \notin {"blank", "comment"}
    /\ \/ ~ExecPattern(step_line)
       \/ ~KnownAgent(step_line.agent)
       \/ ~Registered(agents_registry, step_line.agent, step_line.cap)

\* the entry the claim describes for the line
SkipEntryFor(e) ==
    IF ~ExecPattern(step_line)
    THEN DOMAIN e = {"step", "error"} /\ e.error = Str("Unrecognized format")
    ELSE IF ~KnownAgent(step_line.agent)
    THEN DOMAIN e = {"step", "error"} /\ e.error = Str("Agent not registered")
    ELSE /\ DOMAIN e = {"step", "agent", "capability", "skipped", "reason"}
         /\ e.skipped = TRUE
         /\ e.reason = "Capability not advertised by agent manifest"
         /\ e.agent = step_line.agent /\ e.capability = step_line.cap

\* C19: a line that is malformed, names an unregistered agent or names a
\* capability the agent does not advertise adds exactly one trace entry of the
\* stated form, makes no POST, leaves context and business_context unchanged,
\* and the loop goes on with the next line.
C19_SkipFrame ==
    [][UndispatchableLine =>
          /\ Len(results') = Len(results) + 1
          /\ SubSeq(results', 1, Len(results)) = results
          /\ SkipEntryFor(results'[Len(results')])
          /\ results'[Len(results')].step = step_line
          /\ posts' = posts
          /\ context' = context
          /\ business_context' = business_context
          /\ line' = line + 1
          /\ pc' = "Loop"]_vars

\* a step ran, the next line was passed over with an entry, and the step
\* after it received the output of the first
C19_Witness ==
    /\ Len(results) = 3
    /\ Succeeded(results[1])
    /\ ~("output" \in DOMAIN results[2])
    /\ Succeeded(results[3])
    /\ Len(posts) = 2
    /\ results[1].output # None
    /\ posts[2].input = _clean_input(results[1].output)

\* what the registry observed at plan start says about an agent
StartHas(a) == \E i \in 1..Len(registry_at_start) : registry_at_start[i].name = a
StartRecord(a) ==
    registry_at_start[CHOOSE i \in 1..Len(registry_at_start) : registry_at_start[i].name = a]
StartCaps(a) ==
    {StartRecord(a).manifest.capabilities[j].name :
        j \in 1..Len(StartRecord(a).manifest.capabilities)}
StartHandler(a, c) ==
    LET caps == StartRecord(a).manifest.capabilities
        hit == {j \in 1..Len(caps) : caps[j].name = c}
    IN IF hit = {} THEN None
       ELSE caps[CHOOSE j \in hit : \A m \in hit : j <= m].custom_input_handler

\* C20 as stated: when an agent is re-registered while a plan is executing,
\* every step of the plan still uses the base_url, the capability list and the
\* custom_input_handler the agent had when the plan started.
C20_Stated ==
    /\ \A k \in 1..Len(posts) :
          /\ StartHas(PostLine(k).agent)
          /\ posts[k].url = StartRecord(PostLine(k).agent).base_url
          /\ posts[k].capability \in StartCaps(PostLine(k).agent)
    /\ pc = "Posting" =>
          /\ StartHas(pending.agent_name)
          /\ pending.custom_handler = StartHandler(pending.agent_name, pending.capability)
    /\ \A i \in 1..Len(results) :
          "skipped" \in DOMAIN results[i] =>
              /\ StartHas(results[i].agent)
              /\ results[i].capability \notin StartCaps(results[i].agent)

\* ------------------------------------------------- registry concurrency
\* a thread is in its store-and-persist section from the assignment of the
\* record until _save_agents has returned or raised
InStoreAndPersist(w) == writers[w].pc \in {"Open", "Dump"}

\* the record a read returned for a name is one registration's record
WholeRecord(e) ==
    \E S \in registry_states :
        /\ HasKey(S, e.name)
        /\ Entry(S, e.name).base_url = e.base_url
        /\ Entry(S, e.name).manifest.capabilities = e.capabilities

\* C21: two register_agent calls are never both between storing their
\* record and the end of persisting it, and every record GET /agents returns
\* is the complete record of one registration.
C21_Stated ==
    /\ \A w1, w2 \in Writers :
         InStoreAndPersist(w1) /\ InStoreAndPersist(w2) => w1 = w2
    /\ (reads.op = "list_agents" /\ reads.status = 200) =>
         \A i \in 1..Len(reads.body) : WholeRecord(reads.body[i])

\* C22: at every instant agents.json holds the complete serialization of a
\* registry state that existed, never a partly written or interleaved text.
C22_Stated ==
    \E S \in registry_states : agents_file = Serialize(S)

\* ------------------------------------------------------ re-registration
Names(registry) == [i \in 1..Len(registry) |-> registry[i].name]

\* thread w assigns its record in this step
Stores(w) == writers[w].pc = "Store" /\ writers'[w].pc = "Open"

\* the read answered in this step returns what the registry holds
ReadsCurrent ==
    /\ (reads'.op = "get_agent_manifest" /\ reads'.status = 200) =>
          reads'.body = <<Entry(agents_registry, reads'.name).manifest>>
    /\ (reads'.op = "get_agent_manifest" /\ reads'.status = 404) =>
          ~HasKey(agents_registry, reads'.name)
    /\ (reads'.op = "list_agents" /\ reads'.status = 200) =>
          /\ Len(reads'.body) = Len(agents_registry)
          /\ \A i \in 1..Len(agents_registry) :
                /\ reads'.body[i].name = agents_registry[i].name
                /\ reads'.body[i].base_url = agents_registry[i].base_url
                /\ reads'.body[i].capabilities = agents_registry[i].manifest.capabilities

\* C23: a registration stores exactly its own record under its name: a name
\* already registered keeps its place and the set of names is unchanged, every
\* other record is left as it was, no step removes a name, the registry
\* changes in no other step, and a read returns the record the registry
\* holds, hence that of the latest registration of the name.
C23_Replace ==
    [][ /\ \A i \in 1..Len(agents_registry) :
              HasKey(agents_registry', agents_registry[i].name)
        /\ \A w \in Writers : Stores(w) =>
              LET rec == AgentRecord(writers[w].agent)
              IN /\ HasKey(agents_registry', rec.name)
                 /\ Entry(agents_registry', rec.name) = rec
                 /\ Cardinality({i \in 1..Len(agents_registry') :
                                    agents_registry'[i].name = rec.name}) = 1
                 /\ HasKey(agents_registry, rec.name) =>
                        Names(agents_registry') = Names(agents_registry)
                 /\ \A i \in 1..Len(agents_registry) :
                        agents_registry[i].name # rec.name =>
                            agents_registry'[i] = agents_registry[i]
        /\ (\A w \in Writers : ~Stores(w)) => agents_registry' = agents_registry
        /\ reads' # reads => ReadsCurrent
      ]_vars

\* A was registered twice, both calls succeeded, and GET /agents then
\* returned the base_url and capabilities of one of the two registrations
\* with the four names of the start
C23_Witness ==
    /\ writers["w1"].pc = "Done" /\ writers["w1"].status = 200
    /\ writers["w2"].pc = "Done" /\ writers["w2"].status = 200
    /\ writers["w1"].agent.name = "A" /\ writers["w2"].agent.name = "A"
    /\ writers["w1"].agent.base_url # writers["w2"].agent.base_url
    /\ reads.op = "list_agents" /\ reads.status = 200
    /\ Names(agents_registry) = Names(RegSeed)
    /\ Len(reads.body) = 4
    /\ reads.body[1].base_url = "http://A2"
    /\ reads.body[1].capabilities = <<Cap("do")>>
    /\ agents_registry[1].base_url = "http://A2"

\* ---------------------------------------------------------- water counter
\* C24: every value get_aiwaterdrops returns is at least every value it
\* returned before.
C24_Stated ==
    \A i, j \in 1..Len(observed) : i < j => observed[i] <= observed[j]

RECURSIVE SumOf(_, _)
SumOf(f, S) ==
    IF S = {} THEN 0
    ELSE LET x == CHOOSE y \in S : TRUE IN f[x] + SumOf(f, S \ {x})

\* C25: when every increment call made so far has returned, the in-memory
\* counter is its initial value plus the sum of the amounts.
C25_Stated ==
    (loaded /\ \A t \in Meters : meters[t].pc \in {"Idle", "Done"}) =>
        water.mem = water_start
                    + SumOf([t \in Meters |-> meters[t].amount],
                            {t \in Meters : meters[t].pc = "Done"})

\* C26: an increment whose write of aiwaterdrops.json fails still returns
\* normally to its caller.
C26_Stated ==
    \A t \in Meters : meters[t].pc # "Raised"

\* ---------------------------------------------------------------- auditor
AuditReturned == audit_response.status = 200
AuditDetails == audit_response.body.details

\* C27: the status of a returned AuditResult is fail exactly when one of its
\* details has status fail, and ok exactly when all of them have status valid.
C27_Stated ==
    AuditReturned =>
        /\ audit_response.body.status = "fail"
              <=> \E i \in 1..Len(AuditDetails) : AuditDetails[i].status = "fail"
        /\ audit_response.body.status = "ok"
              <=> \A i \in 1..Len(AuditDetails) : AuditDetails[i].status = "valid"

\* C28: every detail of a returned AuditResult has a score within [0, 1]
\* (0..100 hundredths, never nan) and a status among valid, warning, fail.
C28_ScoresAndStatuses ==
    AuditReturned =>
        \A i \in 1..Len(AuditDetails) :
            /\ ~AuditDetails[i].score.nan
            /\ AuditDetails[i].score.v \in 0..100
            /\ AuditDetails[i].status \in {"valid", "warning", "fail"}

\* the LLM scored A above 1 and used an upper-case status, the policy of A
\* then lowered the score for missing output keys
C28_Witness ==
    /\ AuditReturned
    /\ llm_reply.kind = "json"
    /\ IsDict(llm_reply.val)
    /\ Get(llm_reply.val, "details", None) = List(<<AuditItems.failing>>)
    /\ HasKey(policies, "A")
    /\ Entry(policies, "A").policy
          = Dict([required_output_keys |-> List(<<Str("summary"), Str("title")>>)])
    /\ AuditDetails[1] = Detail("A", "fail", <<"No comment.", "Missing output keys">>, F(60))

\* strict policy discovery has run to its end
Discovered ==
    \/ (audit_pc = "Discover" /\ pidx > Len(steps_payload))
    \/ llm_input.called

TraceAgents == {steps_payload[i].agent : i \in 1..Len(steps_payload)}

FirstStepOf(a) ==
    steps_payload[CHOOSE i \in 1..Len(steps_payload) :
                      steps_payload[i].agent = a
                      /\ \A j \in 1..(i - 1) : steps_payload[j].agent # a]

\* value.strip() of a non-blank string under _agent_base_url, "" otherwise
HintIn(v) ==
    IF v.type = "dict" /\ "_agent_base_url" \in DOMAIN v.val
       /\ v.val["_agent_base_url"].type = "str"
    THEN Strip(v.val["_agent_base_url"].val)
    ELSE ""

\* C29: when strict policy discovery succeeds the policies map has exactly
\* one entry per distinct agent name of the trace, one GET /audit_policy was
\* made per distinct agent, at the URL found in the input of the agent's
\* step or else in its output, and that map is what the LLM stage receives.
C29_PolicyMap ==
    Discovered =>
        /\ {policies[i].name : i \in 1..Len(policies)} = TraceAgents
        /\ Len(policies) = Cardinality(TraceAgents)
        /\ Len(policy_gets) = Cardinality(TraceAgents)
        /\ \A i \in 1..Len(policy_gets) :
              /\ policy_gets[i].agent = policies[i].name
              /\ policy_gets[i].url =
                    IF HintIn(FirstStepOf(policy_gets[i].agent).input) # ""
                    THEN HintIn(FirstStepOf(policy_gets[i].agent).input)
                    ELSE HintIn(FirstStepOf(policy_gets[i].agent).output)
              /\ policy_gets[i].url # ""
        /\ llm_input.called =>
              llm_input.policies = policies /\ llm_input.steps = steps_payload

\* two steps of agent A, the first with a URL in its input and another one in
\* its output: one GET, at the input's URL, and one policy reached the LLM
C29_Witness ==
    /\ llm_input.called
    /\ Len(steps_payload) = 2
    /\ TraceAgents = {"A"}
    /\ HintIn(steps_payload[1].input) = "http://A"
    /\ HintIn(steps_payload[1].output) = "http://A2"
    /\ policy_gets = <<[agent |-> "A", url |-> "http://A"]>>
    /\ Len(llm_input.policies) = 1

\* the agent has no usable _agent_base_url in the input or output of any of
\* its steps
WithoutUrl(a) ==
    \A i \in 1..Len(steps_payload) :
        steps_payload[i].agent = a =>
            HintIn(steps_payload[i].input) = "" /\ HintIn(steps_payload[i].output) = ""

\* a GET /audit_policy failed or did not return an object
FetchRejected == Len(policy_gets) > Len(policies)

\* C30: a POST /run whose trace holds an agent without _agent_base_url, or
\* for which a policy fetch failed, is answered 422 without any LLM call, and
\* the 422 for a missing URL names an agent that has none.
C30_Stated ==
    (/\ audit_pc = "Done"
     /\ api_key
     /\ "" \notin TraceAgents
     /\ (FetchRejected \/ \E a \in TraceAgents : WithoutUrl(a)))
    => /\ audit_response.status = 422
       /\ ~llm_input.called
       /\ audit_response.agent # "" => WithoutUrl(audit_response.agent)

\* C31: each fetched policy is forwarded verbatim to the audit LLM: the
\* policies in the user prompt are, agent by agent, the JSON objects the
\* agents' /audit_policy returned, rules list included
C31_Stated ==
    llm_input.called => llm_input.prompt = llm_input.policies

\* C32: audit is all-or-nothing: a finished POST /run either carries a complete
\* AuditResult (status ok, partial or fail, a non-empty summary, at least one
\* detail, each with agent, status, comment and score) or is an HTTP error
\* without a result
CompleteDetail(d) ==
    /\ DOMAIN d = {"agent", "status", "comment", "score"}
    /\ d.comment # << >>
    /\ \A i \in 1..Len(d.comment) : d.comment[i] # ""
    /\ ~d.score.nan
C32_AllOrNothing ==
    audit_pc = "Done" =>
        \/ /\ audit_response.status = 200
           /\ audit_response.body.status \in {"ok", "partial", "fail"}
           /\ audit_response.body.summary.text # ""
           /\ Len(audit_response.body.details) >= 1
           /\ \A i \in 1..Len(audit_response.body.details) :
                 CompleteDetail(audit_response.body.details[i])
        \/ /\ audit_response.status \in {422, 500}
           /\ audit_response.body = None

\* the policy of B was applied although the LLM had no detail for B: the
\* detail created for it holds an empty comment until the response is built
C32_Witness ==
    /\ AuditReturned
    /\ HasKey(policies, "B")
    /\ llm_reply.kind = "json"
    /\ Get(llm_reply.val, "details", None) = List(<<AuditItems.valid>>)
    /\ \E i \in 1..Len(AuditDetails) :
          AuditDetails[i].agent = "B" /\ AuditDetails[i].comment = <<"No comment.">>
    /\ audit_response.body.summary.text = "agents validated"

\* the entries of a breakdown that are numbers, added up
NumbersIn(b) ==
    LET sum[k \in 0..Len(b)] ==
            IF k = 0 THEN 0
            ELSE IF b[k].value.type = "num" THEN sum[k - 1] + b[k].value.val
            ELSE sum[k - 1]
    IN sum[Len(b)]

\* GET /agents/metrics answered with one entry per registered agent
MetricsPerAgent ==
    reads.op = "aggregate_agent_metrics" =>
        /\ reads.status = 200
        /\ Len(reads.body) = Len(agents_registry)
        /\ \A i \in 1..Len(agents_registry) :
              /\ reads.body[i].name = agents_registry[i].name
              /\ \/ reads.body[i].value = Dict([error |-> Str("Failed to fetch metrics")])
                 \/ \E a \in MetricsAnswers : a.kind = "json" /\ reads.body[i].value = a.val

\* GET /water/total answered with the orchestrator entry, one entry per
\* agent, and the total of the numbers reported
WaterPerAgent ==
    reads.op = "get_total_water_usage" =>
        /\ reads.status = 200
        /\ Len(reads.body[1].breakdown) = 1 + Len(agents_registry)
        /\ reads.body[1].breakdown[1] = [name |-> "orchestrator", value |-> Num(water.mem)]
        /\ \A i \in 1..Len(agents_registry) :
              /\ reads.body[1].breakdown[i + 1].name = agents_registry[i].name
              /\ reads.body[1].breakdown[i + 1].value \in {Num(500), Num(0), Str("error")}
        /\ reads.body[1].total_waterdrops = NumbersIn(reads.body[1].breakdown)

\* C33: whichever agents fail on /metrics, GET /agents/metrics returns one
\* entry per registered agent (metrics or an error marker) and GET /water/total
\* returns the orchestrator entry plus one entry per agent, the total counting
\* the agents that answered
C33_Stated ==
    MetricsPerAgent /\ WaterPerAgent

\* the same, for a registry in which no agent goes by the name "orchestrator"
C33_OtherNames ==
    ~HasKey(agents_registry, "orchestrator") => C33_Stated

\* POST /plan with a goal, sent to a process without a Mistral key, is
\* answered with HTTP 500
PlanRefusedWithoutKey ==
    (license_file # "key" /\ pc = "Done" /\ request.endpoint = "/plan" /\ request.goal # "")
        => response.status = 500

\* a read-only endpoint, once served, answered 200 (404 for an unknown agent)
ReadOnlyServed ==
    reads # NoRead =>
        \/ reads.status = 200
        \/ reads.op = "get_agent_manifest" /\ reads.status = 404
        \/ reads.op = "list_agents" /\ reads.status = 500 /\ water.file # water.mem

\* C34: with the LLM secret missing the orchestrator still starts and serves
\* its read-only endpoints, and /plan responds with HTTP 500
C34_Stated ==
    license_file # "key" =>
        /\ pc # "Crashed"
        /\ PlanRefusedWithoutKey
        /\ ReadOnlyServed

\* the same when license_keys.json exists and holds no "mistral" entry
C34_KeyMissingInFile ==
    license_file = "no_key" =>
        /\ pc # "Crashed"
        /\ PlanRefusedWithoutKey
        /\ ReadOnlyServed

\* names of the entries of a normalized capabilities list
CapNamesOf(caps) == [i \in 1..Len(caps.val) |-> Get(caps.val[i], "name", None)]

\* the raw value is in one of the three accepted wire forms
WireForm(v) ==
    \/ v.type = "mapping"
    \/ v.type = "list" /\ \A i \in 1..Len(v.val) : v.val[i].type = "str"
    \/ v.type = "list" /\ \A i \in 1..Len(v.val) : v.val[i].type = "dict"

\* C35: normalization is idempotent: for a raw capabilities value in any of
\* the three wire forms, normalizing the normalized list gives the same list
C35_Stated ==
    (manifest_check.pc = "Twice" /\ WireForm(manifest_check.raw))
        => manifest_check.twice = manifest_check.once

\* the same, for the raw values that name every capability with a non-empty name
C35_NamedCapabilities ==
    (manifest_check.pc = "Twice"
     /\ \A i \in 1..Len(manifest_check.once.val) :
           CapNamesOf(manifest_check.once)[i] # Str(""))
        => manifest_check.twice = manifest_check.once

\* C36: the capability names of a normalized manifest are non-empty and
\* pairwise distinct: entries without a non-empty name are dropped in all
\* three wire forms, and a name listed twice does not give two entries
C36_Stated ==
    (manifest_check.pc = "Once" /\ WireForm(manifest_check.raw)) =>
        /\ \A i \in 1..Len(manifest_check.once.val) :
              Truthy(CapNamesOf(manifest_check.once)[i])
        /\ \A i, j \in 1..Len(manifest_check.once.val) :
              CapNamesOf(manifest_check.once)[i] = CapNamesOf(manifest_check.once)[j]
                  => i = j

\* the request got past the feasibility gate
GatePassed ==
    /\ gate_reply # NoReply
    /\ pc = "Generate" \/ \E i \in 1..Len(llm_calls) : llm_calls[i] = "generate"

\* C37: the feasibility gate lets a goal through only when the reply is a JSON
\* object whose "feasible" member is the boolean true; a missing member, false
\* or a value that is not a boolean means not feasible
C37_Stated ==
    GatePassed =>
        /\ gate_reply.kind = "json"
        /\ IsDict(gate_reply.val)
        /\ Get(gate_reply.val, "feasible", None) = Bool(TRUE)

\* the same with Python truthiness in place of "is the boolean true"
C37_TruthyVerdict ==
    GatePassed =>
        /\ gate_reply.kind = "json"
        /\ IsDict(gate_reply.val)
        /\ Truthy(Get(gate_reply.val, "feasible", None))

\* register_agent has just answered with an error status
RegistrationRefused ==
    /\ registration.pc = "Idle"
    /\ registration'.pc = "Done"
    /\ registration'.status # 200

\* C38: a register_agent call that answers with an error (400 or 500) leaves
\* the in-memory registry exactly as it was before the call
C38_Stated ==
    [][RegistrationRefused => agents_registry' = agents_registry]_vars

\* a register_agent call that answers 400 leaves the in-memory registry and
\* agents.json as they were
C38_RefusedBeforeStore ==
    [][RegistrationRefused /\ registration'.status = 400
          => /\ agents_registry' = agents_registry
             /\ agents_file' = agents_file]_vars

\* the entries of the trace projection being posted to the last step of the
\* plan, a use_execution_trace capability
AuditedEntries ==
    IF pc = "Posting" /\ line = Len(plan) /\ IsMeta(pending.custom_handler)
    THEN pending.payload_input.val["steps"].val
    ELSE << >>

\* what the Auditor's _require_base_url_from_step finds in a projected entry
LocatedIn(entry) ==
    _require_base_url_from_step([input |-> entry.val["input"],
                                 output |-> entry.val["output"]])

\* C39: every entry of the trace projection sent to a final
\* use_execution_trace step, skipped steps included, carries _agent_base_url
\* in its input or its output
C39_Stated ==
    \A i \in 1..Len(AuditedEntries) : LocatedIn(AuditedEntries[i]).kind = "url"

\* a projection is sent to a final use_execution_trace step with at least
\* one entry
C39_ProjectionSent == Len(AuditedEntries) > 0

\* no increment_aiwaterdrops call is in progress and none ended by raising
NoIncrementRunning ==
    \A t \in Meters : meters[t].pc \in {"Idle", "Done"}

\* C40: whenever no increment call is in progress, the value stored in
\* aiwaterdrops.json equals the in-memory counter, after any interleaving of
\* concurrent increment calls once all of them have returned
C40_Stated ==
    (loaded /\ NoIncrementRunning) => water.file = water.mem

\* two increment calls have returned
C40_BothReturned ==
    loaded /\ \A t \in Meters : meters[t].pc = "Done"

====
